---- MODULE Spec2Model ----
(***************************************************************************)
(* A model of the conference recording controller: the XMPP bot            *)
(* (controller/xmpp_client.py), its participant tracker, and the session   *)
(* orchestrator of the HTTP control plane (controller/app.py) with its     *)
(* capture jobs (controller/ffmpeg_launcher.py).                           *)
(*                                                                         *)
(* All handlers run on one cooperative event loop: a handler is atomic     *)
(* from one await that really suspends to the next, and every action below *)
(* is one such segment.                                                    *)
(***************************************************************************)
EXTENDS Integers, Sequences, FiniteSets, TLC

VARIABLES
    \* ---- deployment (read once at import / lifespan startup)
    mode,               \* "xmpp" | "sim" | "http": XMPP_ENABLED / SIMULATION_MODE
    \* ---- XMPPBot
    brewery,            \* progress of on_session_start and of the brewery MUC join
    bridge_jid,         \* XMPPBot.bridge_jid
    ready,              \* XMPPBot.ready (asyncio.Event)
    handlers,           \* number of got_online/got_offline handler pairs per MUC
    cp_rooms,           \* keys of XMPPBot.conference_participants
    cp,                 \* conference_participants[room]: entries in insertion order
    notify_q,           \* scheduled _notify_participant_change tasks (FIFO)
    binds,              \* session-initiate handlers suspended in allocation
    supports_colibri_v1,    \* XMPPBot.supports_colibri_v1
    supports_colibri_v2,    \* XMPPBot.supports_colibri_v2
    \* ---- RecordingState and capture jobs
    jobs,               \* state.jobs: recording id -> index into jobobjs (0: none)
    sessions,           \* state.sessions: recording id -> session_meta
    room_to_recording,  \* state.room_to_recording
    jobobjs,            \* every FFmpegJob object created so far
    issued,             \* number of recording ids handed out by uuid4
    clock,              \* wall clock in whole seconds (datetime.utcnow)
    calls,              \* orchestrator coroutines suspended at an await
    \* ---- Colibri2 conference-modify handler
    inbound,            \* inbound conference-modify stanzas not yet dispatched
    outbound,           \* result IQs sent, in order
    conference_ids,     \* XMPPBot.conference_ids
    \* ---- Jingle: the WebRTC part of session-initiate, and transport-info
    peer_connections,   \* XMPPBot.peer_connections: session id -> RTCPeerConnection
    negotiations,       \* session-initiate handlers suspended in their WebRTC part
    accepts,            \* session-accept stanzas sent
    jingle_in,          \* transport-info handler tasks not yet run (FIFO)
    jingle_out,         \* result IQs sent by the transport-info handler, in order
    unhandled,          \* exceptions that left a Jingle handler task
    http_error,         \* the request answered with an HTTPException last, where kept
    \* ---- multitrack export over the bridge's REST API
    mt_calls,           \* start_multitrack_recording coroutines suspended in the poll loop
    mt_done,            \* the start_multitrack_recording call that completed last
    \* ---- history (not program state)
    jvb_seen,           \* a brewery occupant with local-part jvb was delivered
    observed,           \* per MUC: resources whose last delivered presence is available
    colibri_log,        \* the Colibri request made last, with ready/bridge_jid at that time
    muc_out,            \* what the join_conference_muc call that ran last sent and awaited
    \* ---- one recording seen from the launcher
    participants,       \* the participant list resolve_inputs_from_request returned
    built,              \* the manifest and the command built from it
    ffjob,              \* the FFmpegJob object
    signals,            \* signals sent to the subprocess, in order
    stop_calls,         \* what poll() gave at the entry of each stop() call
    taken,              \* the list a tail() call returned, as its holder sees it
    \* ---- the SDP of one Jingle session
    offer,              \* the contents of the <jingle> element of a session-initiate
    sdp_offer,          \* jingle_to_sdp(jingle)
    sdp_answer,         \* pc.localDescription.sdp
    jingle_accept,      \* sdp_to_jingle_accept(sdp_answer, ...)
    last_stop           \* the stop_and_release call that completed last

botVars   == <<brewery, bridge_jid, ready, jvb_seen>>
trackVars == <<handlers, cp_rooms, cp, notify_q, binds, observed>>
orchVars  == <<jobs, sessions, room_to_recording, jobobjs, issued, calls>>
ackVars   == <<inbound, outbound, conference_ids>>
histVars  == <<colibri_log, last_stop>>
envVars   == <<mode>>
jingleVars == <<peer_connections, negotiations, accepts, jingle_in, jingle_out>>
mtVars    == <<mt_calls, mt_done>>
capVars   == <<supports_colibri_v1, supports_colibri_v2>>
wireVars  == <<muc_out>>
buildVars == <<participants, built>>
launchVars == <<ffjob, signals, stop_calls, taken>>
sdpVars == <<offer, sdp_offer, sdp_answer, jingle_accept>>
faultVars == <<unhandled>>
respVars == <<http_error>>
vars == <<envVars, respVars, faultVars, sdpVars, buildVars, launchVars, wireVars, capVars, mtVars, jingleVars, botVars, trackVars, orchVars, clock, ackVars, histVars>>

\* What a step of the bot's session, or of the tracker, leaves alone.
BotFrame   == UNCHANGED <<envVars, respVars, faultVars, sdpVars, buildVars, launchVars, wireVars, capVars, mtVars, jingleVars, trackVars, orchVars, clock, ackVars, histVars>>
TrackFrame == UNCHANGED <<envVars, respVars, faultVars, sdpVars, buildVars, launchVars, wireVars, capVars, mtVars, jingleVars, botVars, orchVars, clock, ackVars, histVars>>

----------------------------------------------------------------------------
(* Bounds of the model *)

MaxQueue   == 1      \* scheduled notification tasks
MaxJobs    == 2      \* FFmpegJob objects created in one run
MaxRecs    == 1      \* recording ids handed out in one run
MaxClock   == 1      \* seconds that pass in one run
MaxCalls   == 1      \* orchestrator coroutines suspended at the same time
MaxConcurrent == 2   \* the same, where requests overlap
MaxInbound == 2      \* conference-modify stanzas in flight
MaxAcks    == 3      \* result IQs kept in the outbound log
MaxPending == 3      \* scheduled notification tasks where their order is examined

----------------------------------------------------------------------------
(* Names.  A room name is a base followed by n copies of "@muc.<domain>":  *)
(* n = 0 is the short name, n = 1 the MUC JID.                             *)

Bases == {"a"}

Name(b, k) == [base |-> b, n |-> k]

\* No room: a request body, or a stanza attribute, that names none.
NoRoom == Name("none", 0)

\* f"{room}@muc.{self.settings.domain}"
Full(room) == [room EXCEPT !.n = @ + 1]

\* Rooms a request body can name: the short name or the MUC JID.
RequestRooms == {Name(b, k) : b \in Bases, k \in 0..1}

\* The conference MUCs the XMPP service hosts: valid JIDs, with one "@".
MucJids == {Name(b, 1) : b \in Bases}

\* The resource part of a presence's from, cut at every "/".
PlainResources == {<<"p1">>, <<"p2">>}
OddResources   == {<<"x", "p1">>, <<"recorder-bot">>}

Last(s) == s[Len(s)]

\* participant_jid.split('/')[-1]
NickOf(resource) == <<Last(resource)>>

BotNick == <<"recorder-bot">>

\* Bare JIDs of brewery occupants, as tokens; <<>> is a presence without item jid.
NoJid == <<>>
BreweryOccupants ==
    {<<"jvb", "@", "auth">>, <<"jvb", "2", "@", "auth">>,
     <<"focus", "@", "auth">>, NoJid}

\* occupant.bare.startswith("jvb@")
StartsWithJvbAt(bare) == Len(bare) >= 2 /\ bare[1] = "jvb" /\ bare[2] = "@"

\* The local part of a bare JID: the tokens before the first "@".
LocalPart(bare) ==
    IF \E i \in 1..Len(bare) : bare[i] = "@"
    THEN SubSeq(bare, 1, (CHOOSE i \in 1..Len(bare) :
                            bare[i] = "@" /\ \A j \in 1..(i-1) : bare[j] # "@") - 1)
    ELSE bare

----------------------------------------------------------------------------
(* XMPPBot: session start, brewery MUC, bridge discovery *)

MaxHandlers == 1     \* joins of the same conference MUC (handler pairs registered)
MaxBinds    == 1     \* session-initiate handlers suspended in allocation

\* XMPPBot.__init__: no bridge, ready unset, empty tables.
BotInit ==
    /\ brewery = "idle"
    /\ bridge_jid = NoJid
    /\ ready = FALSE
    /\ jvb_seen = FALSE
    /\ supports_colibri_v1 = FALSE
    /\ supports_colibri_v2 = FALSE

\* on_session_start up to "await self.get_roster()".
SessionStart ==
    /\ mode = "xmpp"
    /\ brewery = "idle"
    /\ brewery' = "roster"
    /\ UNCHANGED <<bridge_jid, ready, jvb_seen>>
    /\ BotFrame

\* What on_session_start does once the roster has arrived: join_muc is sent
\* and nothing else; ready stays as it is.  A roster error ends the handler.
SessionStartFinish(ok) ==
    /\ brewery' = IF ok THEN "requested" ELSE "failed"
    /\ UNCHANGED <<bridge_jid, ready, jvb_seen>>

OnSessionStartResume ==
    /\ brewery = "roster"
    /\ \E ok \in BOOLEAN : SessionStartFinish(ok)
    /\ BotFrame

\* The join is acknowledged: the bot's own presence comes back from the
\* brewery MUC.  No handler of the bot waits for it (join_muc, not
\* join_muc_wait).
BreweryJoinAccepted ==
    /\ brewery = "requested"
    /\ brewery' = "joined"
    /\ UNCHANGED <<bridge_jid, ready, jvb_seen>>
    /\ BotFrame

\* A muc_online that sets ready on the presence of any occupant.
muc_online_any_occupant(occupant) ==
    /\ bridge_jid' = IF occupant # NoJid /\ StartsWithJvbAt(occupant)
                     THEN occupant ELSE bridge_jid
    /\ ready' = TRUE

\* muc_online(presence), occupant = presence["muc"]["jid"].
muc_online(occupant) ==
    IF occupant # NoJid /\ StartsWithJvbAt(occupant)
    THEN /\ bridge_jid' = occupant
         /\ ready' = TRUE
    ELSE UNCHANGED <<bridge_jid, ready>>

\* The "muc::<brewery>::got_online" event.  A MUC service answers a join
\* with the presence of the occupants already in the room and only then with
\* the joiner's own presence, so occupants are delivered from the join
\* request on.
MucOnline ==
    /\ brewery \in {"requested", "joined"}
    /\ \E occupant \in BreweryOccupants :
          /\ muc_online(occupant)
          /\ jvb_seen' = (jvb_seen \/ LocalPart(occupant) = <<"jvb">>)
    /\ brewery' = brewery
    /\ BotFrame

\* The features a bridge can advertise in its disco#info answer.
ColibriFeatures == {"colibri", "colibri2"}

\* A check_bridge_capabilities task, created by muc_online for a bridge
\* occupant, has its disco#info query answered (features: what the bridge
\* advertises) or not (timeout, error): the flags are stored only from an
\* answer.
CheckBridgeCapabilities(answered, features) ==
    /\ bridge_jid # NoJid
    /\ IF answered
       THEN /\ supports_colibri_v1' = ("colibri" \in features)
            /\ supports_colibri_v2' = ("colibri2" \in features)
       ELSE UNCHANGED capVars
    /\ UNCHANGED <<envVars, respVars, faultVars, sdpVars, buildVars, launchVars, wireVars, mtVars, jingleVars, botVars, trackVars, orchVars, clock,
                   ackVars, histVars>>

----------------------------------------------------------------------------
(* Participant tracker *)

Keys(entries) == {entries[i].key : i \in 1..Len(entries)}

Entry(entries, k) == entries[CHOOSE i \in 1..Len(entries) : entries[i].key = k]

\* participant_data of _parse_participant_from_presence: "ssrcs": {}, no
\* forwarder.  joined_at is the time of the presence; an entry keeps it as
\* its rank among the joined_at of the entries of its room (1 is the oldest),
\* which Joined and Left maintain.
NewEntry(k) == [key |-> k, ssrcs |-> FALSE, fwd |-> FALSE, joined_at |-> 0]

\* dict[k] = value: an existing key keeps its place, a new key goes last.
DictPut(entries, e) ==
    IF e.key \in Keys(entries)
    THEN [i \in 1..Len(entries) |-> IF entries[i].key = e.key THEN e ELSE entries[i]]
    ELSE Append(entries, e)

\* dict.pop(k)
DictPop(entries, k) == SelectSeq(entries, LAMBDA e : e.key # k)

\* conference_participants[room][k] = participant_data with a joined_at
\* later than every other entry's.
Joined(entries, k) ==
    LET old == IF k \in Keys(entries) THEN Entry(entries, k).joined_at ELSE Len(entries) + 1
        put == DictPut(entries, NewEntry(k))
    IN  [i \in 1..Len(put) |->
            IF put[i].key = k THEN [put[i] EXCEPT !.joined_at = Len(put)]
            ELSE IF put[i].joined_at > old THEN [put[i] EXCEPT !.joined_at = @ - 1]
            ELSE put[i]]

\* conference_participants[room].pop(k)
Left(entries, k) ==
    LET old == Entry(entries, k).joined_at
        pop == DictPop(entries, k)
    IN  [i \in 1..Len(pop) |->
            IF pop[i].joined_at > old THEN [pop[i] EXCEPT !.joined_at = @ - 1] ELSE pop[i]]

\* A handler suspended in allocate_forwarder_for_participant holds the
\* participant dict it read before the await; once the table holds another
\* dict for that nick (or none) its write no longer reaches the table.
Detach(bs, room, k) ==
    {IF b.room = room /\ b.key = k THEN [b EXCEPT !.stale = TRUE] ELSE b : b \in bs}

Notification(room, action, k) == [room |-> room, action |-> action, key |-> k]

\* max_retries of join_conference_muc
max_retries == 5

\* What join_conference_muc puts on the wire, and where it sleeps.
Wire(kind, conference_muc) == [kind |-> kind, to |-> conference_muc, nick |-> BotNick]

\* A retry loop that does not leave at the first join_muc that returns.
join_attempts_all(conference_muc, raised) ==
    [i \in 1..max_retries |->
        Wire(IF i <= raised THEN "sleep" ELSE "join", conference_muc)]

\* The retry loop of join_conference_muc when join_muc raises in the first
\* `raised` attempts: every attempt that raises is followed by a sleep of 5 s,
\* the first one that returns has sent the join presence and ends the loop.
join_attempts(conference_muc, raised) ==
    IF raised >= max_retries
    THEN [i \in 1..max_retries |-> Wire("sleep", conference_muc)]
    ELSE Append([i \in 1..raised |-> Wire("sleep", conference_muc)],
                Wire("join", conference_muc))

\* join_conference_muc(room), called by /test/join-conference and
\* /api/record/start, both of which refuse unless bot.ready is set: the
\* retry loop, the presence with audiomuted and videomuted, the handler pair.
join_conference_muc(room, raised) ==
    /\ muc_out' = Append(join_attempts(Full(room), raised), Wire("muted", Full(room)))
    /\ handlers' = [handlers EXCEPT ![Full(room)] = @ + 1]

JoinConferenceRaising(room, raised) ==
    /\ mode = "xmpp"
    /\ ready
    /\ Full(room) \in MucJids
    /\ handlers[Full(room)] < MaxHandlers
    /\ join_conference_muc(room, raised)
    /\ UNCHANGED <<cp_rooms, cp, notify_q, binds, observed>>
    /\ UNCHANGED <<envVars, respVars, faultVars, sdpVars, buildVars, launchVars, capVars, mtVars, jingleVars, botVars, orchVars, clock, ackVars, histVars>>

\* join_conference_muc(room) where join_muc returns at the first attempt.
JoinConference(room) == JoinConferenceRaising(room, 0)

\* _on_conference_participant_online, once per registered handler pair.
participant_online(room, resource) ==
    IF NickOf(resource) = BotNick
    THEN UNCHANGED <<cp_rooms, cp, notify_q, binds>>
    ELSE /\ cp_rooms' = cp_rooms \cup {room}
         /\ cp' = [cp EXCEPT ![room] = Joined(@, NickOf(resource))]
         /\ notify_q' = notify_q \o
               [i \in 1..handlers[room] |-> Notification(room, "joined", NickOf(resource))]
         /\ binds' = Detach(binds, room, NickOf(resource))

\* The "muc::<room>::got_online" event for an occupant, while at most
\* `pending` notification tasks are scheduled.
ParticipantOnlineWithin(room, resource, pending) ==
    /\ handlers[room] > 0
    /\ resource \notin observed[room]
    /\ Len(notify_q) + handlers[room] <= pending
    /\ observed' = [observed EXCEPT ![room] = @ \cup {resource}]
    /\ participant_online(room, resource)
    /\ handlers' = handlers
    /\ TrackFrame

ParticipantOnline(room, resource) == ParticipantOnlineWithin(room, resource, MaxQueue)

\* _on_conference_participant_offline: only the first handler finds the entry.
participant_offline(room, resource) ==
    IF NickOf(resource) = BotNick \/ NickOf(resource) \notin Keys(cp[room])
    THEN UNCHANGED <<cp_rooms, cp, notify_q, binds>>
    ELSE /\ cp' = [cp EXCEPT ![room] = Left(@, NickOf(resource))]
         /\ notify_q' = Append(notify_q, Notification(room, "left", NickOf(resource)))
         /\ binds' = Detach(binds, room, NickOf(resource))
         /\ cp_rooms' = cp_rooms

\* The "muc::<room>::got_offline" event for an occupant, while fewer than
\* `pending` notification tasks are scheduled.
ParticipantOfflineWithin(room, resource, pending) ==
    /\ handlers[room] > 0
    /\ resource \in observed[room]
    /\ Len(notify_q) < pending
    /\ observed' = [observed EXCEPT ![room] = @ \ {resource}]
    /\ participant_offline(room, resource)
    /\ handlers' = handlers
    /\ TrackFrame

ParticipantOffline(room, resource) == ParticipantOfflineWithin(room, resource, MaxQueue)

\* 'ssrcs' in participant: _parse_participant_from_presence puts the key in
\* every dict with the value {}, and nothing removes it.
HasSsrcsKey(e) == TRUE

\* get_participants_with_forwarders(room): the entries, in table order, with
\* 'forwarder' in participant and 'ssrcs' in participant.
get_participants_with_forwarders(room) ==
    IF room \notin cp_rooms
    THEN <<>>
    ELSE SelectSeq(cp[room], LAMBDA e : e.fwd /\ HasSsrcsKey(e))

\* is_in_conference(room)
is_in_conference(room) == Full(room) \in cp_rooms

----------------------------------------------------------------------------
(* Colibri requests of the bot *)

\* One call of allocate_colibri_v1 or release_forwarder, with the bot's
\* ready event and bridge_jid as they are when the call is made.  Both
\* functions send their IQ only with a bridge_jid: allocate_colibri_v1 raises
\* without one, release_forwarder returns.
\* The dialect of the IQ is that of the function that builds it:
\* allocate_forwarder calls allocate_colibri_v1 (namespace
\* http://jitsi.org/protocol/colibri), release_forwarder calls
\* Colibri2IQ.build_release (namespace urn:xmpp:jitsi-videobridge:colibri2).
\* The capability flags are recorded as they are when the call is made.
DialectOf(op) == IF op = "allocate" THEN "v1" ELSE "v2"

ColibriRequest(op, via) ==
    [op |-> op, via |-> via, ready |-> ready, bridge |-> bridge_jid # NoJid,
     sent |-> bridge_jid # NoJid, dialect |-> DialectOf(op),
     v1 |-> supports_colibri_v1, v2 |-> supports_colibri_v2]

NoRequest ==
    [op |-> "none", via |-> "none", ready |-> FALSE, bridge |-> FALSE, sent |-> FALSE,
     dialect |-> "none", v1 |-> FALSE, v2 |-> FALSE]

\* allocate_colibri_v1 gets as far as sending its IQ.
allocate_colibri_v1_sends == bridge_jid # NoJid

\* release_forwarder gets as far as sending its IQ.
release_forwarder_sends == bridge_jid # NoJid

----------------------------------------------------------------------------
(* Jingle session-initiate: SSRC binding and forwarder allocation *)

\* The nicks the binding loop passes over: 'focus' in jid, 'jibri' in jid or
\* jid == 'recorder-bot'.
BindSkips(k) == k = BotNick \/ k[1] \in {"focus", "jibri"}

\* for jid in reversed(list(participants.keys())): the most recently
\* inserted entry without SSRCs that is not skipped; 0 if there is none.
BindTarget(entries) ==
    LET ok == {i \in 1..Len(entries) : ~entries[i].ssrcs /\ ~BindSkips(entries[i].key)}
    IN  IF ok = {} THEN 0 ELSE CHOOSE i \in ok : \A j \in ok : j <= i

\* room_name.split("@")[0]
Short(room) == [room EXCEPT !.n = 0]

\* The id of the bridge-session element of an offer; "none": no such element.
BridgeIds == {"none", "b1"}

\* The conference id of an allocation: an id taken from conference_ids, or
\* the room the allocation falls back to.
ConfId(id) == [id |-> id, room |-> NoRoom]
ConfRoom(room) == [id |-> "none", room |-> room]

\* for i in range(25)
WaitAttempts == 25

\* The bridge-session part of the handler: the id is stored under the room
\* of the stanza's from and under its short name.
StoreBridgeSession(ids, room, bs) ==
    IF bs = "none" THEN ids
    ELSE [r \in DOMAIN ids |-> IF r = room \/ r = Short(room) THEN bs ELSE ids[r]]

\* allocate_forwarder_for_participant after its wait:
\* conference_ids.get(room, room), then allocate_forwarder up to the await of
\* the allocation IQ; without a bridge_jid allocate_colibri_v1 raises and the
\* call returns False.
ProceedToAllocate(rest, b, ids) ==
    /\ colibri_log' = ColibriRequest("allocate", "jingle")
    /\ binds' = IF allocate_colibri_v1_sends
                THEN rest \cup {[b EXCEPT !.phase = "alloc",
                                          !.conf = IF ids[b.room] # "none"
                                                   THEN ConfId(ids[b.room])
                                                   ELSE ConfRoom(b.room)]}
                ELSE rest

\* One pass of the wait loop: the check "room in self.conference_ids", then
\* the break or the await of asyncio.sleep(0.2).
CheckConferenceId(rest, b, ids) ==
    IF ids[b.room] # "none"
    THEN ProceedToAllocate(rest, [b EXCEPT !.polls = @ + 1], ids)
    ELSE /\ binds' = rest \cup {[b EXCEPT !.polls = @ + 1, !.phase = "sleep"]}
         /\ colibri_log' = colibri_log

\* _handle_jingle_session_initiate_async for an offer with SSRCs that the
\* focus sends to the bot in a MUC the bot has joined: the bridge-session
\* part, the binding loop, and allocate_forwarder_for_participant up to its
\* first await.  The rest of the handler (from the SDP conversion on) reads
\* nothing that this part writes; it is the action OfferAnswering.
SessionInitiate(room, bs) ==
    /\ handlers[room] > 0
    /\ Cardinality(binds) < MaxBinds
    /\ conference_ids' = StoreBridgeSession(conference_ids, room, bs)
    /\ IF room \in cp_rooms /\ BindTarget(cp[room]) # 0
       THEN LET i == BindTarget(cp[room])
                b == [room |-> room, key |-> cp[room][i].key, stale |-> FALSE,
                      phase |-> "check", polls |-> 0, conf |-> ConfRoom(NoRoom)]
            IN  /\ cp' = [cp EXCEPT ![room][i].ssrcs = TRUE]
                /\ CheckConferenceId(binds, b, conference_ids')
       ELSE UNCHANGED <<cp, binds, colibri_log>>
    /\ UNCHANGED <<handlers, cp_rooms, notify_q, observed, last_stop>>
    /\ UNCHANGED <<envVars, respVars, faultVars, sdpVars, buildVars, launchVars, wireVars, capVars, mtVars, jingleVars, botVars, orchVars, clock, inbound, outbound>>

\* asyncio.sleep(0.2) of the wait loop is over: the next pass, or after the
\* last pass the allocation.
WaitForConferenceId(b) ==
    /\ b \in binds
    /\ b.phase = "sleep"
    /\ IF b.polls < WaitAttempts
       THEN CheckConferenceId(binds \ {b}, b, conference_ids)
       ELSE ProceedToAllocate(binds \ {b}, b, conference_ids)
    /\ UNCHANGED <<handlers, cp_rooms, cp, notify_q, observed, last_stop>>
    /\ UNCHANGED <<envVars, respVars, faultVars, sdpVars, buildVars, launchVars, wireVars, capVars, mtVars, jingleVars, botVars, orchVars, clock, ackVars>>

\* A store that looks the participant up again by its nick after the await.
StoreForwarder_by_key(entries, b) ==
    [i \in 1..Len(entries) |->
        IF entries[i].key = b.key THEN [entries[i] EXCEPT !.fwd = TRUE] ELSE entries[i]]

\* participant['forwarder'] = {...} on the dict read before the await.
StoreForwarder(entries, b) ==
    IF b.stale
    THEN entries
    ELSE [i \in 1..Len(entries) |->
            IF entries[i].key = b.key THEN [entries[i] EXCEPT !.fwd = TRUE] ELSE entries[i]]

\* The allocation IQ is answered (ok) or fails or times out (~ok).
AllocationAnswered(b, ok) ==
    /\ b \in binds
    /\ b.phase = "alloc"
    /\ binds' = binds \ {b}
    /\ cp' = IF ok THEN [cp EXCEPT ![b.room] = StoreForwarder(@, b)] ELSE cp
    /\ UNCHANGED <<handlers, cp_rooms, notify_q, observed>>
    /\ TrackFrame

----------------------------------------------------------------------------
(* Capture jobs and the RecordingState tables *)

RecIds == 1..MaxRecs

\* session_meta of a recording; present = FALSE stands for None.
NoSession ==
    [present |-> FALSE, via_xmpp |-> FALSE, room |-> NoRoom,
     endpoint_ids |-> 0, session_id |-> FALSE]

\* {"auto_discovered": True, "room": room, "participant_count": n, "via_xmpp": True}
AutoSession(room) == [NoSession EXCEPT !.present = TRUE, !.via_xmpp = TRUE, !.room = room]

\* {"bridge_jid": ..., "room": room, "endpoint_ids": [...], "via_xmpp": True}
XmppSession(room, n) ==
    [NoSession EXCEPT !.present = TRUE, !.via_xmpp = TRUE, !.room = room, !.endpoint_ids = n]

\* Colibri2Simulator.allocate_forwarders: {"simulated": True, "room": room,
\* "endpoint_ids": [...]}
SimSession(room, n) ==
    [NoSession EXCEPT !.present = TRUE, !.room = room, !.endpoint_ids = n]

\* {"session_id": session_id}; the allocation answer may carry no session id.
HttpSession(sid) == [NoSession EXCEPT !.present = TRUE, !.session_id = sid]

\* datetime.utcnow().strftime("%Y%m%dT%H%M%SZ"): the clock cut to whole seconds.
timestamp_str == clock

\* FFmpegJob(...) followed by start(): the subprocess runs.  The job's
\* directory is RECORDINGS_ROOT / room / timestamp_str(); prev is the
\* directory of the job it replaces under the same recording id, if any.
NewJob(rec, room, parts, via, prev) ==
    [rec |-> rec, proc |-> "running", room |-> room, ts |-> timestamp_str,
     parts |-> parts, via |-> via, prev |-> prev]

DirOf(job) == <<job.room, job.ts>>

\* FFmpegJob.status(): "running" or "exited:<code>".
status(job) == job.proc

\* FFmpegJob.stop(): a running subprocess is terminated.
FFmpegJob_stop(job) ==
    IF job.proc = "running" THEN [job EXCEPT !.proc = "exited:term"] ELSE job

\* The tables and the job objects, as one value that a handler threads
\* through its statements.
Tables == [jobs |-> jobs, sessions |-> sessions, r2r |-> room_to_recording,
           objs |-> jobobjs]

SetTables(T) ==
    /\ jobs' = T.jobs
    /\ sessions' = T.sessions
    /\ room_to_recording' = T.r2r
    /\ jobobjs' = T.objs

\* RecordingState.add(job, session_meta)
RecordingState_add(T, j, meta) ==
    LET rec == T.objs[j].rec
    IN  [T EXCEPT !.jobs[rec] = j,
                  !.sessions[rec] = IF meta.present THEN meta ELSE @,
                  !.r2r = IF meta.present /\ meta.room # NoRoom
                          THEN DictPut(@, [key |-> meta.room, rec |-> rec])
                          ELSE @]

\* RecordingState.get_recording_for_room(room): 0 stands for None.
get_recording_for_room(T, room) ==
    IF room \in Keys(T.r2r) THEN Entry(T.r2r, room).rec ELSE 0

\* A remove that deletes the job and leaves the session and the room.
RecordingState_remove_job(T, rec) == [T EXCEPT !.jobs[rec] = 0]

\* RecordingState.remove(rec_id): the first room that maps to rec_id, the
\* session and the job.
RecordingState_remove(T, rec) ==
    LET hits  == {i \in 1..Len(T.r2r) : T.r2r[i].rec = rec}
        first == CHOOSE i \in hits : \A j \in hits : i <= j
    IN  [T EXCEPT !.r2r = IF hits = {} THEN @
                          ELSE SubSeq(@, 1, first - 1) \o SubSeq(@, first + 1, Len(@)),
                  !.sessions[rec] = NoSession,
                  !.jobs[rec] = 0]

\* A new FFmpegJob object; its index is its identity.
WithJob(T, job) == [T EXCEPT !.objs = Append(@, job)]

----------------------------------------------------------------------------
(* stop_and_release *)

\* A suspended orchestrator coroutine.  kind: the handler ("start", "refresh",
\* "delete", "change"); phase: the await it is suspended at ("alloc": the
\* allocation IQ of resolve_inputs_from_request, "release": a release IQ of
\* stop_and_release).  order lists what its stop_and_release has done so far,
\* failed tells whether one of its release IQs failed.
BlankCall ==
    [kind |-> "", phase |-> "", rec |-> 0, room |-> NoRoom, parts |-> <<>>,
     meta |-> NoSession, job |-> 0, sess |-> NoSession, left |-> 0, order |-> <<>>,
     failed |-> FALSE]

\* No request has been answered with an HTTPException.
NoError == [kind |-> "", rec |-> 0]

\* Coroutine c is suspended next to the coroutines rest.  calls is a set, so
\* c is admitted only while no coroutine in the very same position is
\* suspended already.
Suspended(rest, c) ==
    /\ c \notin rest
    /\ calls' = rest \cup {c}

NoStop == [job |-> 0, sess |-> NoSession, order |-> <<>>, rec |-> 0, failed |-> FALSE,
           kind |-> ""]

\* A stop_and_release that removes the table entries before it releases.
stop_and_release_remove_first(T, rec) ==
    LET j    == T.jobs[rec]
        sess == T.sessions[rec]
        T1   == IF j # 0 THEN [T EXCEPT !.objs[j] = FFmpegJob_stop(@)] ELSE T
        rel  == sess.present /\ (sess.session_id \/ sess.endpoint_ids > 0)
    IN  [done |-> TRUE, T |-> RecordingState_remove(T1, rec), job |-> j, sess |-> sess,
         left |-> 0,
         order |-> (IF j # 0 THEN <<"terminate", "manifest">> ELSE <<>>)
                   \o <<"remove">> \o (IF rel THEN <<"release">> ELSE <<>>)]

\* stop_and_release(rec_id) from its first statement to its first release
\* IQ, or to its end if it sends none:
\*   job.stop() and the rewrite of the manifest, if the job is in the table;
\*   the release IQs, one per endpoint id, if the session was allocated over
\*     XMPP and the bot is ready and knows a bridge;
\*   else the HTTP release, if the session has a session id;
\*   state.remove(rec_id).
stop_and_release(T, rec) ==
    LET j     == T.jobs[rec]
        sess  == T.sessions[rec]
        T1    == IF j # 0 THEN [T EXCEPT !.objs[j] = FFmpegJob_stop(@)] ELSE T
        begun == IF j # 0 THEN <<"terminate", "manifest">> ELSE <<>>
        iqs   == IF sess.present /\ sess.via_xmpp /\ mode = "xmpp"
                    /\ ready /\ bridge_jid # NoJid /\ release_forwarder_sends
                 THEN sess.endpoint_ids ELSE 0
        http  == sess.present /\ ~sess.via_xmpp /\ sess.session_id
    IN  IF iqs > 0
        THEN [done |-> FALSE, T |-> T1, job |-> j, sess |-> sess, left |-> iqs - 1,
              order |-> Append(begun, "release")]
        ELSE [done |-> TRUE, T |-> RecordingState_remove(T1, rec), job |-> j,
              sess |-> sess, left |-> 0,
              order |-> begun \o (IF http THEN <<"release">> ELSE <<>>) \o <<"remove">>]

\* An AfterStop that starts a new job whoever the caller is.
AfterStop_restart(T, c) ==
    LET prev == IF c.job # 0 THEN DirOf(T.objs[c.job]) ELSE <<>>
        T1   == WithJob(T, NewJob(c.rec, c.room, c.parts, c.kind, prev))
    IN  /\ Len(T.objs) < MaxJobs
        /\ SetTables(RecordingState_add(T1, Len(T1.objs), c.meta))

\* What the caller of stop_and_release does when it returns: refresh starts
\* a new job under the same id and adds it with the new session; DELETE and
\* the participant-change callback are done.
AfterStop(T, c) ==
    IF c.kind = "refresh"
    THEN LET prev == IF c.job # 0 THEN DirOf(T.objs[c.job]) ELSE <<>>
             T1   == WithJob(T, NewJob(c.rec, c.room, c.parts, c.kind, prev))
         IN  SetTables(RecordingState_add(T1, Len(T1.objs), c.meta))
    ELSE SetTables(T)

\* client.release(session_id), or build_colibri2_from_env before it, may
\* raise; the except around them passes.  Whether the HTTP release of a
\* stop_and_release that ran to its end failed: it can only if there was one.
HttpReleaseFails(order) ==
    IF \E i \in 1..Len(order) : order[i] = "release" THEN BOOLEAN ELSE {FALSE}

\* await stop_and_release(rec) in coroutine c; rest are the other suspended
\* coroutines.
DoStop(rest, T, c) ==
    LET r == stop_and_release(T, c.rec)
    IN  IF r.done
        THEN /\ AfterStop(r.T, [c EXCEPT !.job = r.job])
             /\ calls' = rest
             /\ \E failed \in HttpReleaseFails(r.order) :
                   last_stop' = [job |-> r.job, sess |-> r.sess, order |-> r.order,
                                 rec |-> c.rec, failed |-> failed, kind |-> c.kind]
             /\ colibri_log' = colibri_log
        ELSE /\ SetTables(r.T)
             /\ Suspended(rest, [c EXCEPT !.phase = "release", !.job = r.job,
                                          !.sess = r.sess, !.left = r.left,
                                          !.order = r.order])
             /\ last_stop' = last_stop
             /\ colibri_log' = ColibriRequest("release", "orchestrator")

\* A release loop that a failed release IQ leaves with the exception.
after_release_raising(ok, left) ==
    IF ~ok THEN "abort" ELSE IF left > 0 THEN "next" ELSE "remove"

\* What stop_and_release does when a release IQ was answered (ok) or failed:
\* release_forwarder catches every Exception of the send and returns, so the
\* loop sends the next release ("next") or is over and state.remove follows
\* ("remove"); "abort" would be an exception that leaves stop_and_release.
after_release(ok, left) == IF left > 0 THEN "next" ELSE "remove"

\* A release IQ is answered, fails or times out; release_forwarder swallows
\* the error.  The loop sends the next release or stop_and_release finishes.
ReleaseAnswered(c) ==
    /\ c \in calls
    /\ c.phase = "release"
    /\ c.kind = "refresh" => Len(jobobjs) < MaxJobs
    /\ \E ok \in BOOLEAN :
          LET failed == c.failed \/ ~ok
              what   == after_release(ok, c.left)
          IN IF what = "next"
             THEN /\ Suspended(calls \ {c},
                           [c EXCEPT !.left = @ - 1, !.failed = failed,
                                     !.order = IF release_forwarder_sends
                                               THEN Append(@, "release") ELSE @])
                  /\ colibri_log' = ColibriRequest("release", "orchestrator")
                  /\ UNCHANGED <<jobs, sessions, room_to_recording, jobobjs, last_stop>>
             ELSE IF what = "remove"
             THEN /\ AfterStop(RecordingState_remove(Tables, c.rec), c)
                  /\ calls' = calls \ {c}
                  /\ last_stop' = [job |-> c.job, sess |-> c.sess,
                                   order |-> Append(c.order, "remove"),
                                   rec |-> c.rec, failed |-> failed,
                                   kind |-> c.kind]
                  /\ colibri_log' = colibri_log
             ELSE /\ calls' = calls \ {c}
                  /\ UNCHANGED <<jobs, sessions, room_to_recording, jobobjs, histVars>>
    /\ UNCHANGED <<issued, clock>>
    /\ UNCHANGED <<envVars, respVars, faultVars, sdpVars, buildVars, launchVars, wireVars, capVars, mtVars, jingleVars, botVars, trackVars, ackVars>>

----------------------------------------------------------------------------
(* The HTTP control plane *)

\* The lifespan waits for bot.ready before the application serves requests;
\* without XMPP it serves at once.
Serving == mode # "xmpp" \/ ready

\* Request bodies: "inputs" carries explicit inputs, "participants" a list
\* with the one endpoint e1, "both" the two of them, "bare" neither.
BodyKinds == {"inputs", "participants", "both", "bare"}

\* "inputs" in body
HasInputs(kind) == kind \in {"inputs", "both"}

\* body.get("participants") or []; "pair" is a body whose list has the two
\* endpoints e1 and e2.
HasParticipants(kind) == kind \in {"participants", "both", "pair"}

\* endpoint_objects
Endpoints(kind) == IF kind = "pair" THEN <<"e1", "e2">> ELSE <<"e1">>

Ids(entries) == [i \in 1..Len(entries) |-> entries[i].key]

\* A resolution that looks at the inputs of the body last.
resolve_inputs_from_request_inputs_last(room, kind) ==
    IF mode = "xmpp" /\ ready /\ is_in_conference(room)
       /\ get_participants_with_forwarders(room) # <<>>
    THEN [tag |-> "ok", parts |-> Ids(get_participants_with_forwarders(room)),
          meta |-> AutoSession(room)]
    ELSE IF HasParticipants(kind)
    THEN IF mode = "sim"
         THEN [tag |-> "ok", parts |-> Endpoints(kind),
               meta |-> SimSession(room, Len(Endpoints(kind)))]
         ELSE IF mode = "xmpp"
         THEN IF ~ready THEN [tag |-> "error", parts |-> <<>>, meta |-> NoSession]
              ELSE IF bridge_jid = NoJid
              THEN [tag |-> "error", parts |-> <<>>, meta |-> NoSession]
              ELSE [tag |-> "xmpp", parts |-> Endpoints(kind),
                    meta |-> XmppSession(room, Len(Endpoints(kind)))]
         ELSE [tag |-> "http", parts |-> Endpoints(kind), meta |-> NoSession]
    ELSE IF HasInputs(kind)
    THEN [tag |-> "ok", parts |-> <<"i1">>, meta |-> NoSession]
    ELSE [tag |-> "error", parts |-> <<>>, meta |-> NoSession]

\* resolve_inputs_from_request(body) up to its return, its HTTPException or
\* its first await:
\*   "ok":    (participants, session_meta) without an allocation request;
\*   "xmpp":  the allocation goes to the bot;
\*   "http":  the allocation goes to the HTTP Colibri2 client;
\*   "error": an HTTPException.
resolve_inputs_from_request(room, kind) ==
    IF HasInputs(kind)
    THEN [tag |-> "ok", parts |-> <<"i1">>, meta |-> NoSession]
    ELSE IF mode = "xmpp" /\ ready /\ is_in_conference(room)
            /\ get_participants_with_forwarders(room) # <<>>
    THEN [tag |-> "ok", parts |-> Ids(get_participants_with_forwarders(room)),
          meta |-> AutoSession(room)]
    ELSE IF HasParticipants(kind)
    THEN IF mode = "sim"
         THEN [tag |-> "ok", parts |-> Endpoints(kind),
               meta |-> SimSession(room, Len(Endpoints(kind)))]
         ELSE IF mode = "xmpp"
         THEN IF ~ready THEN [tag |-> "error", parts |-> <<>>, meta |-> NoSession]
              ELSE IF bridge_jid = NoJid
              THEN [tag |-> "error", parts |-> <<>>, meta |-> NoSession]
              ELSE [tag |-> "xmpp", parts |-> Endpoints(kind),
                    meta |-> XmppSession(room, Len(Endpoints(kind)))]
         ELSE [tag |-> "http", parts |-> Endpoints(kind), meta |-> NoSession]
    ELSE [tag |-> "error", parts |-> <<>>, meta |-> NoSession]

\* str(uuid.uuid4()): an id no recording had before.
NewRecId == issued + 1

\* POST /recordings after resolve_inputs_from_request has returned: a new id,
\* a started job in RECORDINGS_ROOT/room/<timestamp>, state.add.
FinishStart(room, parts, meta) ==
    /\ issued < MaxRecs
    /\ Len(jobobjs) < MaxJobs
    /\ NewRecId \in RecIds
    /\ LET T1 == WithJob(Tables, NewJob(NewRecId, room, parts, "start", <<>>))
       IN  SetTables(RecordingState_add(T1, Len(T1.objs), meta))
    /\ issued' = issued + 1

\* bot.allocate_forwarder(room, ep_id) called by resolve_inputs_from_request
\* for the first endpoint of the list: the coroutine is suspended until the
\* bridge answers; left counts the endpoints the loop has not come to.
AwaitAllocation(c, limit) ==
    /\ Cardinality(calls) < limit
    /\ allocate_colibri_v1_sends
    /\ Suspended(calls, [c EXCEPT !.phase = "alloc", !.left = Len(c.parts) - 1])
    /\ colibri_log' = ColibriRequest("allocate", "orchestrator")
    /\ UNCHANGED <<jobs, sessions, room_to_recording, jobobjs, issued, last_stop>>

\* POST /recordings, while fewer than `limit` coroutines are suspended.
StartRecordingAmong(room, kind, limit) ==
    /\ Serving
    /\ LET r == resolve_inputs_from_request(room, kind)
           c == [BlankCall EXCEPT !.kind = "start", !.room = room,
                                  !.parts = r.parts, !.meta = r.meta]
       IN  \/ /\ r.tag = "ok"
              /\ FinishStart(room, r.parts, r.meta)
              /\ UNCHANGED <<calls, colibri_log, last_stop>>
           \/ /\ r.tag = "xmpp"
              /\ AwaitAllocation(c, limit)
           \/ /\ r.tag = "http"
              /\ \E sid \in BOOLEAN : FinishStart(room, r.parts, HttpSession(sid))
              /\ UNCHANGED <<calls, colibri_log, last_stop>>
    /\ UNCHANGED <<envVars, respVars, faultVars, sdpVars, buildVars, launchVars, wireVars, capVars, mtVars, jingleVars, botVars, trackVars, clock, ackVars>>

\* POST /recordings
StartRecording(room, kind) == StartRecordingAmong(room, kind, MaxCalls)

\* POST /recordings/{rec_id}/refresh, while fewer than `limit` coroutines
\* are suspended; room = NoRoom is a body without room.
RefreshRecordingAmong(rec, room, kind, limit) ==
    /\ Serving
    /\ jobs[rec] # 0
    /\ Len(jobobjs) < MaxJobs
    /\ Cardinality(calls) < limit
    /\ LET rm == IF room = NoRoom THEN jobobjs[jobs[rec]].room ELSE room
           r  == resolve_inputs_from_request(rm, kind)
           c  == [BlankCall EXCEPT !.kind = "refresh", !.rec = rec, !.room = rm,
                                   !.parts = r.parts, !.meta = r.meta]
       IN  \/ /\ r.tag = "ok"
              /\ DoStop(calls, Tables, c)
              /\ issued' = issued
           \/ /\ r.tag = "xmpp"
              /\ AwaitAllocation(c, limit)
           \/ /\ r.tag = "http"
              /\ \E sid \in BOOLEAN : DoStop(calls, Tables, [c EXCEPT !.meta = HttpSession(sid)])
              /\ issued' = issued
    /\ UNCHANGED <<envVars, respVars, faultVars, sdpVars, buildVars, launchVars, wireVars, capVars, mtVars, jingleVars, botVars, trackVars, clock, ackVars>>

\* POST /recordings/{rec_id}/refresh
RefreshRecording(rec, room, kind) == RefreshRecordingAmong(rec, room, kind, MaxCalls)

\* DELETE /recordings/{rec_id}, while fewer than `limit` coroutines are
\* suspended.
StopRecordingAmong(rec, limit) ==
    /\ Serving
    /\ jobs[rec] # 0
    /\ Cardinality(calls) < limit
    /\ DoStop(calls, Tables, [BlankCall EXCEPT !.kind = "delete", !.rec = rec])
    /\ issued' = issued
    /\ UNCHANGED <<envVars, respVars, faultVars, sdpVars, buildVars, launchVars, wireVars, capVars, mtVars, jingleVars, botVars, trackVars, clock, ackVars>>

\* DELETE /recordings/{rec_id}
StopRecording(rec) == StopRecordingAmong(rec, MaxCalls)

\* A handler that has stopped the recording by the time the exception of
\* resolve_inputs_from_request reaches it.
resolve_inputs_raised_after_stop(T, c) ==
    IF c.kind = "refresh" THEN stop_and_release(T, c.rec).T ELSE T

\* The tables when resolve_inputs_from_request has raised in coroutine c:
\* start_recording and refresh_recording await it before anything else, and
\* the exception leaves the handler as the error response.
resolve_inputs_raised(T, c) == T

\* The allocation IQ of a suspended start or refresh is answered (ok), or it
\* fails or times out: allocate_forwarder logs the exception and raises it
\* again, the loop of resolve_inputs_from_request has no try around the call,
\* and the request ends with an error.  After an answer the loop allocates
\* for the next endpoint, or the handler goes on.  kept: whether the error
\* response is kept in http_error.
AllocationReplyKeeping(c, ok, kept) ==
    /\ c \in calls
    /\ c.phase = "alloc"
    /\ IF ~ok
       THEN /\ calls' = calls \ {c}
            /\ SetTables(resolve_inputs_raised(Tables, c))
            /\ http_error' = IF kept THEN [kind |-> c.kind, rec |-> c.rec] ELSE http_error
            /\ UNCHANGED <<issued, colibri_log, last_stop>>
       ELSE IF c.left > 0
       THEN /\ allocate_colibri_v1_sends
            /\ Suspended(calls \ {c}, [c EXCEPT !.left = @ - 1])
            /\ colibri_log' = ColibriRequest("allocate", "orchestrator")
            /\ UNCHANGED <<jobs, sessions, room_to_recording, jobobjs, issued, last_stop,
                           http_error>>
       ELSE IF c.kind = "start"
       THEN /\ FinishStart(c.room, c.parts, c.meta)
            /\ calls' = calls \ {c}
            /\ UNCHANGED <<colibri_log, last_stop, http_error>>
       ELSE /\ Len(jobobjs) < MaxJobs
            /\ DoStop(calls \ {c}, Tables, c)
            /\ UNCHANGED <<issued, http_error>>
    /\ UNCHANGED <<envVars, faultVars, sdpVars, buildVars, launchVars, wireVars, capVars, mtVars, jingleVars, botVars, trackVars, clock, ackVars>>

\* The same with the error response left unrecorded.
AllocationReply(c, ok) == AllocationReplyKeeping(c, ok, FALSE)

----------------------------------------------------------------------------
(* The participant-change callback *)

\* A FastAPI class that keeps its instances.
FastAPI_keeps_instances == TRUE

\* hasattr(FastAPI, '_instances'): the FastAPI class has no such attribute
\* and nothing in the controller sets one.
FastAPI_has_instances == FALSE

\* handle_participant_change(room, action, participant_jid), run by the
\* notification task up to its end or to the first release IQ of its
\* stop_and_release.
handle_participant_change(room) ==
    LET rec == get_recording_for_room(Tables, room)
        j   == IF rec = 0 THEN 0 ELSE jobs[rec]
    IN  IF rec = 0 \/ j = 0 \/ status(jobobjs[IF j = 0 THEN 1 ELSE j]) # "running"
        THEN UNCHANGED <<jobs, sessions, room_to_recording, jobobjs, calls, histVars>>
        ELSE LET T1    == [Tables EXCEPT !.objs[j] = FFmpegJob_stop(@)]
                 parts == Ids(get_participants_with_forwarders(room))
             IN  IF ~FastAPI_has_instances
                 THEN /\ SetTables(T1)
                      /\ UNCHANGED <<calls, histVars>>
                 ELSE IF parts = <<>>
                 THEN /\ Cardinality(calls) < MaxCalls
                      /\ DoStop(calls, T1, [BlankCall EXCEPT !.kind = "change", !.rec = rec])
                 ELSE /\ Len(jobobjs) < MaxJobs
                      /\ LET T2 == WithJob(T1, NewJob(rec, room, parts, "rotate",
                                                      DirOf(jobobjs[j])))
                         IN  SetTables([T2 EXCEPT !.jobs[rec] = Len(T2.objs)])
                      /\ UNCHANGED <<calls, histVars>>

\* The oldest scheduled _notify_participant_change task runs; the one
\* registered callback is handle_participant_change.
NotifyRun ==
    /\ notify_q # <<>>
    /\ notify_q' = Tail(notify_q)
    /\ handle_participant_change(Head(notify_q).room)
    /\ UNCHANGED <<handlers, cp_rooms, cp, binds, observed, issued, clock>>
    /\ UNCHANGED <<envVars, respVars, faultVars, sdpVars, buildVars, launchVars, wireVars, capVars, mtVars, jingleVars, botVars, ackVars>>

----------------------------------------------------------------------------
(* The environment of the capture jobs *)

\* The ffmpeg subprocess of a job ends by itself.
JobExit(j) ==
    /\ j \in 1..Len(jobobjs)
    /\ jobobjs[j].proc = "running"
    /\ jobobjs' = [jobobjs EXCEPT ![j].proc = "exited:self"]
    /\ UNCHANGED <<jobs, sessions, room_to_recording, issued, calls, clock>>
    /\ UNCHANGED <<envVars, respVars, faultVars, sdpVars, buildVars, launchVars, wireVars, capVars, mtVars, jingleVars, botVars, trackVars, ackVars, histVars>>

\* A second passes.
Tick ==
    /\ clock < MaxClock
    /\ clock' = clock + 1
    /\ UNCHANGED <<envVars, respVars, faultVars, sdpVars, buildVars, launchVars, wireVars, capVars, mtVars, jingleVars, botVars, trackVars, orchVars, ackVars, histVars>>

----------------------------------------------------------------------------
(* The Colibri2 conference-modify handler *)

MeetingIds == {"none", "m1"}     \* "none": no meeting-id attribute
StanzaIds  == 1..2

\* An inbound IQ with a conference-modify child: its id, its meeting-id and
\* name attributes (NoRoom: no name), and whether reading them raises.
Stanzas ==
    [id : StanzaIds, meeting : MeetingIds, name : {NoRoom} \cup MucJids, raises : BOOLEAN]

\* iq.reply(): a result IQ with the id of the request.
Reply(iq) == [id |-> iq.id, type |-> "result"]

\* The stream delivers a conference-modify IQ.
ConferenceModifyArrives(iq) ==
    /\ Len(inbound) < MaxInbound
    /\ inbound' = Append(inbound, iq)
    /\ UNCHANGED <<outbound, conference_ids>>
    /\ UNCHANGED <<envVars, respVars, faultVars, sdpVars, buildVars, launchVars, wireVars, capVars, mtVars, jingleVars, botVars, trackVars, orchVars, clock, histVars>>

\* A handler that replies only when it has stored the mapping.
handle_colibri2_conference_modify_on_success(iq) ==
    IF ~iq.raises /\ iq.meeting # "none" /\ iq.name # NoRoom
    THEN /\ conference_ids' = [conference_ids EXCEPT ![iq.name] = iq.meeting]
         /\ outbound' = Append(outbound, Reply(iq))
    ELSE UNCHANGED <<conference_ids, outbound>>

\* _handle_colibri2_conference_modify(iq): a synchronous stanza callback.
\* The mapping is stored if both attributes are there and nothing raised;
\* the reply is sent after the try block in every case.
handle_colibri2_conference_modify(iq) ==
    /\ conference_ids' =
          IF ~iq.raises /\ iq.meeting # "none" /\ iq.name # NoRoom
          THEN [conference_ids EXCEPT ![iq.name] = iq.meeting]
          ELSE conference_ids
    /\ outbound' = Append(outbound, Reply(iq))

ConferenceModifyDispatch ==
    /\ inbound # <<>>
    /\ Len(outbound) < MaxAcks
    /\ inbound' = Tail(inbound)
    /\ handle_colibri2_conference_modify(Head(inbound))
    /\ UNCHANGED <<envVars, respVars, faultVars, sdpVars, buildVars, launchVars, wireVars, capVars, mtVars, jingleVars, botVars, trackVars, orchVars, clock, histVars>>

----------------------------------------------------------------------------
(* Jingle: the WebRTC part of the session-initiate handler *)

MaxNegotiations  == 1    \* session-initiate handlers in their WebRTC part at a time
MaxTransportInfo == 1    \* transport-info handler tasks scheduled and not yet run
MaxJingleOut     == 2    \* result IQs kept in the jingle_out log

\* Session ids of the offers.
Sids == {"s1", "s2"}

\* ICE candidates a transport-info can carry.
Candidates == {"c1"}

\* self.peer_connections has no entry for the session id.
NoPeerConnection ==
    [made |-> FALSE, local |-> FALSE, gathering |-> "new", candidates |-> {}]

\* RTCPeerConnection()
NewPeerConnection ==
    [made |-> TRUE, local |-> FALSE, gathering |-> "new", candidates |-> {}]

\* The 5.0 s of the gathering wait, in sleeps of 0.1 s.
GatherLimit == 50

\* What one asyncio.sleep(0.1) can take, in units of 0.1 s: its nominal
\* time, or longer when the event loop is busy.
SleepTicks == {1, 25}

\* A handler without except clause: what it raises leaves its task.
no_except(escaped) == escaped + 1

\* try: ... except Exception as e: log the error and the traceback.  What
\* the body of a Jingle handler raises ends the handler and goes no further.
except_Exception(escaped) == escaped

\* The wait loop only ends when the gathering is complete.
gathering_wait_over_when_complete(pc, waited) == pc.gathering = "complete"

\* while pc.iceGatheringState != "complete": if time() - gather_start > 5.0: break
gathering_wait_over(pc, waited) ==
    pc.gathering = "complete" \/ waited > GatherLimit

\* The session-accept built from pc.localDescription and sent as the result
\* of the offer, with the state of the connection and of the wait when it
\* is sent.
SessionAccept(n, pc, waited) ==
    [sid |-> n.sid, id |-> n.id, local |-> pc.local, gathering |-> pc.gathering,
     timed_out |-> waited > GatherLimit]

\* The wait loop from its while condition to the sleep, or past the loop to
\* response_iq.send(), after which the handler ends.
GatheringWait(rest, n, pc, waited) ==
    IF gathering_wait_over(pc, waited)
    THEN /\ negotiations' = rest
         /\ accepts' = accepts \cup {SessionAccept(n, pc, waited)}
    ELSE /\ negotiations' = rest \cup {[n EXCEPT !.at = "gather", !.waited = waited]}
         /\ accepts' = accepts

\* _handle_jingle_session_initiate_async from the SDP conversion to the await
\* of pc.setRemoteDescription.  An offer reaches this part at once or after
\* the allocation of the binding part, whose outcome it does not read.
OfferAnswering(sid, id) ==
    /\ ~peer_connections[sid].made
    /\ Cardinality(negotiations) < MaxNegotiations
    /\ peer_connections' = [peer_connections EXCEPT ![sid] = NewPeerConnection]
    /\ negotiations' = negotiations \cup {[sid |-> sid, id |-> id, at |-> "remote", waited |-> 0]}
    /\ UNCHANGED <<accepts, jingle_in, jingle_out>>
    /\ UNCHANGED <<envVars, respVars, faultVars, sdpVars, buildVars, launchVars, wireVars, capVars, mtVars, botVars, trackVars, orchVars, clock, ackVars, histVars>>

\* An await of the WebRTC part returns (ok), or raises and the handler ends
\* in its except clause: setRemoteDescription, createAnswer,
\* setLocalDescription; after setLocalDescription the wait loop begins.
NegotiationStep(n, ok) ==
    /\ n \in negotiations
    /\ n.at \in {"remote", "answer", "local"}
    /\ IF ~ok
       THEN /\ negotiations' = negotiations \ {n}
            /\ unhandled' = except_Exception(unhandled)
            /\ UNCHANGED <<peer_connections, accepts>>
       ELSE IF n.at = "remote"
       THEN /\ negotiations' = (negotiations \ {n}) \cup {[n EXCEPT !.at = "answer"]}
            /\ UNCHANGED <<peer_connections, accepts, unhandled>>
       ELSE IF n.at = "answer"
       THEN /\ negotiations' = (negotiations \ {n}) \cup {[n EXCEPT !.at = "local"]}
            /\ UNCHANGED <<peer_connections, accepts, unhandled>>
       ELSE /\ peer_connections' = [peer_connections EXCEPT ![n.sid].local = TRUE]
            /\ GatheringWait(negotiations \ {n}, n, peer_connections'[n.sid], 0)
            /\ UNCHANGED unhandled
    /\ UNCHANGED <<jingle_in, jingle_out>>
    /\ UNCHANGED <<envVars, respVars, sdpVars, buildVars, launchVars, wireVars, capVars, mtVars, botVars, trackVars, orchVars, clock, ackVars, histVars>>

\* asyncio.sleep(0.1) of the wait loop is over after d tenths of a second.
GatherWake(n, d) ==
    /\ n \in negotiations
    /\ n.at = "gather"
    /\ LET waited == IF n.waited + d > GatherLimit THEN GatherLimit + 1 ELSE n.waited + d
       IN  GatheringWait(negotiations \ {n}, n, peer_connections[n.sid], waited)
    /\ UNCHANGED <<peer_connections, jingle_in, jingle_out>>
    /\ UNCHANGED <<envVars, respVars, faultVars, sdpVars, buildVars, launchVars, wireVars, capVars, mtVars, botVars, trackVars, orchVars, clock, ackVars, histVars>>

GatherWakes == \E n \in negotiations, d \in SleepTicks : GatherWake(n, d)

\* The ICE agent of a connection makes progress with its gathering, from
\* the call of setLocalDescription on; nothing obliges it to.
IceGathering(sid) ==
    /\ \/ peer_connections[sid].local
       \/ \E n \in negotiations : n.sid = sid /\ n.at = "local"
    /\ peer_connections[sid].gathering # "complete"
    /\ peer_connections' = [peer_connections EXCEPT ![sid].gathering =
                                IF @ = "new" THEN "gathering" ELSE "complete"]
    /\ UNCHANGED <<negotiations, accepts, jingle_in, jingle_out>>
    /\ UNCHANGED <<envVars, respVars, faultVars, sdpVars, buildVars, launchVars, wireVars, capVars, mtVars, botVars, trackVars, orchVars, clock, ackVars, histVars>>

----------------------------------------------------------------------------
(* Jingle: transport-info *)

\* An inbound IQ with a jingle child of action transport-info: its id, its
\* sid attribute ("none": no sid) and the candidate it carries.
TransportInfos == [id : {1}, sid : Sids \cup {"none"}, candidate : Candidates]

\* _handle_jingle_transport_info(iq): the handler task is scheduled.
TransportInfoArrives(iq) ==
    /\ Len(jingle_in) < MaxTransportInfo
    /\ jingle_in' = Append(jingle_in, iq)
    /\ UNCHANGED <<peer_connections, negotiations, accepts, jingle_out>>
    /\ UNCHANGED <<envVars, respVars, faultVars, sdpVars, buildVars, launchVars, wireVars, capVars, mtVars, botVars, trackVars, orchVars, clock, ackVars, histVars>>

\* _handle_jingle_transport_info_async(iq): without sid, or with a sid that
\* is not in peer_connections, it returns; otherwise it adds the candidates
\* to peer_connections[sid] and sends the result (ok), or the send raises
\* and the handler ends in its except clause.
handle_jingle_transport_info(iq, ok) ==
    IF iq.sid = "none" \/ ~peer_connections[IF iq.sid = "none" THEN "s1" ELSE iq.sid].made
    THEN UNCHANGED <<peer_connections, jingle_out, unhandled>>
    ELSE /\ peer_connections' =
               [peer_connections EXCEPT ![iq.sid].candidates = @ \cup {iq.candidate}]
         /\ IF ok
            THEN /\ jingle_out' = Append(jingle_out, [id |-> iq.id, type |-> "result"])
                 /\ UNCHANGED unhandled
            ELSE /\ jingle_out' = jingle_out
                 /\ unhandled' = except_Exception(unhandled)

\* The oldest scheduled transport-info handler task runs.
TransportInfoRun ==
    /\ jingle_in # <<>>
    /\ Len(jingle_out) < MaxJingleOut
    /\ jingle_in' = Tail(jingle_in)
    /\ \E ok \in BOOLEAN : handle_jingle_transport_info(Head(jingle_in), ok)
    /\ UNCHANGED <<negotiations, accepts>>
    /\ UNCHANGED <<envVars, respVars, sdpVars, buildVars, launchVars, wireVars, capVars, mtVars, botVars, trackVars, orchVars, clock, ackVars, histVars>>

----------------------------------------------------------------------------
(* Multitrack export: start_multitrack_recording and the debug inventory *)

MaxMt          == 1    \* start_multitrack_recording coroutines suspended at a time
MaxConferences == 1    \* conferences in one answer of the debug endpoint

\* range(5): the polls of the cache after the initial lookup.
Polls == 5

\* "@" in name
HasAt(name) == name.n > 0

\* The "name" of a conference in the debug inventory: a MUC JID, a name
\* without "@", or the MUC JID of another room.
DebugNames == RequestRooms \cup {Name("b", 1)}

\* One value of the "conferences" dictionary ("none": the key is absent, so
\* that conf_data.get returns None).
DebugEntries == [name : DebugNames, meeting_id : {"none", "m1"}, id : {"none", "i1"}]

\* No conference of the inventory.
NoConference == [name |-> NoRoom, meeting_id |-> "none", id |-> "none"]

\* What requests.get(debug_url) gives: a 200 with the conferences in
\* dictionary order, or anything else (another status, an exception).
DebugAnswers ==
    {[ok |-> FALSE, conferences |-> <<>>]} \cup
    {[ok |-> TRUE, conferences |-> cs] :
        cs \in UNION {[1..k -> DebugEntries] : k \in 0..MaxConferences}}

\* What requests.patch gives: 200, 404, or anything else (another status,
\* an exception), for which 500 stands.
PatchStatuses == {200, 404, 500}

\* A value as conference_ids holds it: None is kept as "null", since "none"
\* stands for a key the dictionary does not have.
Stored(v) == IF v = "none" THEN "null" ELSE v

\* The value a lookup of conference_ids leaves in conference_id, "none" when
\* it is falsy.
Truthy(v) == IF v = "null" THEN "none" ELSE v

\* conf_name == target_room or conf_name.split("@")[0] == target_room_short
Matches(conf_name, target_room) ==
    conf_name = target_room \/ Short(conf_name) = Short(target_room)

\* The first conference of the answer that matches, 0 if none does.
FirstMatch(conferences, target_room) ==
    LET hits == {i \in 1..Len(conferences) : Matches(conferences[i].name, target_room)}
    IN IF hits = {} THEN 0 ELSE CHOOSE i \in hits : \A j \in hits : i <= j

\* self.conference_ids[target_room_short] = final_id, and
\* self.conference_ids[conf_name] = final_id if "@" in conf_name.
cache_resolved(ids, target_room, conf_name, final_id) ==
    LET short == [ids EXCEPT ![Short(target_room)] = Stored(final_id)]
    IN IF HasAt(conf_name) THEN [short EXCEPT ![conf_name] = Stored(final_id)] ELSE short

\* _resolve_conference_id_via_debug(room_name) on the answer of the debug
\* endpoint: the identifier returned ("none": None) and conference_ids
\* afterwards.
resolve_conference_id_via_debug(ids, room_name, answer) ==
    LET i == FirstMatch(answer.conferences, room_name)
    IN IF ~answer.ok \/ i = 0
       THEN [id |-> "none", conf |-> NoConference, ids |-> ids]
       ELSE LET conf_data == answer.conferences[i]
                final_id  == IF conf_data.meeting_id # "none"
                             THEN conf_data.meeting_id ELSE conf_data.id
            IN [id |-> final_id, conf |-> conf_data,
                ids |-> cache_resolved(ids, room_name, conf_data.name, final_id)]

\* What a call of start_multitrack_recording did: the lookups of the cache
\* with the value found ("none": key absent), the debug queries with the
\* identifier resolved and the conference it was taken from, the PATCH
\* requests with the identifier in the URL and the status of the response.
Event(op, id) == [op |-> op, id |-> id, conf |-> NoConference, code |-> 0]

Resolution(r) == [op |-> "debug", id |-> r.id, conf |-> r.conf, code |-> 0]

Patch(id, code) == [op |-> "patch", id |-> id, conf |-> NoConference, code |-> code]

NoMultitrack == [room |-> NoRoom, events |-> <<>>, result |-> FALSE]

\* k lookups that did not find the key.
Misses(k) == [i \in 1..k |-> Event("lookup", "none")]

\* return of start_multitrack_recording.
MultitrackReturn(rest, room_short, events, result, ids) ==
    /\ mt_calls' = rest
    /\ mt_done' = [room |-> room_short, events |-> events, result |-> result]
    /\ conference_ids' = ids

\* A retry after every 404, whatever the re-resolution gave.
retry_after_404_always(new_id, conference_id) == TRUE

\* if new_id and new_id != conference_id
retry_after_404(new_id, conference_id) == new_id # "none" /\ new_id # conference_id

\* start_multitrack_recording from the PATCH to its return: requests.patch
\* and the re-resolution after a 404 are blocking calls, nothing else runs.
MultitrackPatch(rest, room_short, events, conference_id, ids) ==
    \E code \in PatchStatuses :
        LET ev == Append(events, Patch(conference_id, code))
        IN IF code = 200
           THEN MultitrackReturn(rest, room_short, ev, TRUE, ids)
           ELSE IF code = 404
           THEN \E answer \in DebugAnswers :
                   LET r   == resolve_conference_id_via_debug(ids, room_short, answer)
                       ev2 == Append(ev, Resolution(r))
                   IN IF retry_after_404(r.id, conference_id)
                      THEN \E retry \in PatchStatuses :
                              MultitrackReturn(rest, room_short,
                                               Append(ev2, Patch(r.id, retry)),
                                               retry = 200, r.ids)
                      ELSE MultitrackReturn(rest, room_short, ev2, FALSE, r.ids)
           ELSE MultitrackReturn(rest, room_short, ev, FALSE, ids)

\* A resolution that asks the debug endpoint in every case.
debug_wanted_always(conference_id) == TRUE

\* if not conference_id (the second one, before the debug query)
debug_wanted(conference_id) == conference_id = "none"

\* start_multitrack_recording after the poll loop: the debug query if no
\* identifier was found, the return of False if there is still none, the
\* PATCH otherwise.
MultitrackResolve(rest, room_short, events, conference_id) ==
    IF debug_wanted(conference_id)
    THEN \E answer \in DebugAnswers :
            LET r  == resolve_conference_id_via_debug(conference_ids, room_short, answer)
                ev == Append(events, Resolution(r))
            IN IF r.id = "none"
               THEN MultitrackReturn(rest, room_short, ev, FALSE, r.ids)
               ELSE MultitrackPatch(rest, room_short, ev, r.id, r.ids)
    ELSE MultitrackPatch(rest, room_short, events, conference_id, conference_ids)

\* One pass of the poll loop after `polls` passes that missed: the check
\* "room_short in self.conference_ids", then the break or the sleep.
MultitrackPoll(rest, slot, room_short, polls) ==
    LET found == conference_ids[room_short]
    IN IF found # "none"
       THEN MultitrackResolve(rest, room_short,
                              Append(Misses(polls + 1), Event("lookup", found)),
                              Truthy(found))
       ELSE /\ mt_calls' = rest \cup {[slot |-> slot, room |-> room_short, polls |-> polls + 1]}
            /\ UNCHANGED <<mt_done, conference_ids>>

\* The coroutine object of a new call.
FreeSlot == CHOOSE k \in 1..MaxMt : \A c \in mt_calls : c.slot # k

\* start_multitrack_recording up to its first sleep, or to its return if
\* it never sleeps, in the coroutine `slot`, beside the calls `rest`.
start_multitrack_recording(rest, slot, room_short) ==
    LET found == conference_ids[room_short]
    IN IF Truthy(found) # "none"
       THEN MultitrackResolve(rest, room_short, <<Event("lookup", found)>>, found)
       ELSE IF found # "none"
       THEN MultitrackResolve(rest, room_short,
                              <<Event("lookup", found), Event("lookup", found)>>,
                              "none")
       ELSE /\ mt_calls' = rest \cup {[slot |-> slot, room |-> room_short, polls |-> 1]}
            /\ UNCHANGED <<mt_done, conference_ids>>

\* start_multitrack_recording(room_name), called on its own.
StartMultitrack(room_name) ==
    /\ Cardinality(mt_calls) < MaxMt
    /\ start_multitrack_recording(mt_calls, FreeSlot, Short(room_name))
    /\ UNCHANGED <<inbound, outbound>>
    /\ UNCHANGED <<envVars, respVars, faultVars, sdpVars, buildVars, launchVars, wireVars, capVars, jingleVars, botVars, trackVars, orchVars, clock, histVars>>

\* asyncio.sleep(0.5) of a suspended call is over: the next pass of the
\* loop, or the end of the loop after the fifth sleep.
MultitrackWake(c) ==
    /\ c \in mt_calls
    /\ IF c.polls = 0
       THEN start_multitrack_recording(mt_calls \ {c}, c.slot, c.room)
       ELSE IF c.polls < Polls
       THEN MultitrackPoll(mt_calls \ {c}, c.slot, c.room, c.polls)
       ELSE MultitrackResolve(mt_calls \ {c}, c.room, Misses(Polls + 1), "none")
    /\ UNCHANGED <<inbound, outbound>>
    /\ UNCHANGED <<envVars, respVars, faultVars, sdpVars, buildVars, launchVars, wireVars, capVars, jingleVars, botVars, trackVars, orchVars, clock, histVars>>

----------------------------------------------------------------------------
(* POST /api/record/start *)

MaxJoins == 2        \* joins of one conference MUC by /api/record/start

\* api_start_recording(room_id) up to its first await that gives way: the
\* join, unless is_in_conference(full_room_jid), and the sleep of 3 s after
\* it (a call with polls = 0 in mt_calls); without join it goes straight
\* into start_multitrack_recording(full_room_jid).
ApiStartRecording(room_id, raised) ==
    /\ mode = "xmpp"
    /\ ready
    /\ Cardinality(mt_calls) < MaxMt
    /\ LET full_room_jid == IF HasAt(room_id) THEN room_id ELSE Full(room_id)
       IN  /\ full_room_jid \in MucJids
           /\ IF ~is_in_conference(full_room_jid)
              THEN /\ handlers[full_room_jid] < MaxJoins
                   /\ join_conference_muc(Short(room_id), raised)
                   /\ mt_calls' = mt_calls \cup
                          {[slot |-> FreeSlot, room |-> Short(full_room_jid), polls |-> 0]}
                   /\ UNCHANGED <<mt_done, conference_ids>>
              ELSE /\ start_multitrack_recording(mt_calls, FreeSlot, Short(full_room_jid))
                   /\ UNCHANGED <<muc_out, handlers>>
    /\ UNCHANGED <<inbound, outbound, cp_rooms, cp, notify_q, binds, observed>>
    /\ UNCHANGED <<envVars, respVars, faultVars, sdpVars, buildVars, launchVars, capVars, jingleVars, botVars, orchVars, clock, histVars>>

----------------------------------------------------------------------------
(* Specifications *)

Modes == {"xmpp", "sim", "http"}

\* FFmpegJob.__init__: no subprocess, an empty deque. `lines` counts the
\* lines the log pump has read, `eof` is the end of the subprocess's output,
\* `stop` is the position of a stop() call.
FFmpegJob ==
    [proc |-> "none", returncode |-> 0, log_lines |-> <<>>, lines |-> 0,
     eof |-> FALSE, stop |-> "idle"]

NotBuilt == [out_dir |-> <<>>, audio_files |-> <<>>, out_files |-> <<>>]
NotTaken == [alias |-> FALSE, list |-> <<>>, lines |-> 0]

\* No recording has been requested and no job object created.
LauncherIdle ==
    /\ built = NotBuilt
    /\ ffjob = FFmpegJob
    /\ signals = <<>>
    /\ stop_calls = <<>>
    /\ taken = NotTaken

\* No session-accept has been built.
NoAccept == [group |-> <<>>, contents |-> <<>>, built |-> FALSE]

\* RecordingState(), XMPPBot.__init__ and the module-level state of app.py.
InitState(m) ==
    /\ mode = m
    /\ BotInit
    /\ handlers = [r \in MucJids |-> 0]
    /\ cp_rooms = {}
    /\ cp = [r \in MucJids |-> <<>>]
    /\ notify_q = <<>>
    /\ muc_out = <<>>
    /\ binds = {}
    /\ observed = [r \in MucJids |-> {}]
    /\ jobs = [r \in RecIds |-> 0]
    /\ sessions = [r \in RecIds |-> NoSession]
    /\ room_to_recording = <<>>
    /\ jobobjs = <<>>
    /\ issued = 0
    /\ clock = 0
    /\ calls = {}
    /\ inbound = <<>>
    /\ outbound = <<>>
    /\ conference_ids = [r \in RequestRooms |-> "none"]
    /\ peer_connections = [sid \in Sids |-> NoPeerConnection]
    /\ negotiations = {}
    /\ accepts = {}
    /\ jingle_in = <<>>
    /\ jingle_out = <<>>
    /\ unhandled = 0
    /\ http_error = NoError
    /\ mt_calls = {}
    /\ mt_done = NoMultitrack
    /\ colibri_log = NoRequest
    /\ last_stop = NoStop
    /\ sdp_offer = <<>>
    /\ sdp_answer = <<>>
    /\ jingle_accept = NoAccept

\* The controller before any recording is requested.
InitWith(m) ==
    /\ InitState(m)
    /\ participants = <<>>
    /\ offer = <<>>
    /\ LauncherIdle

Init == \E m \in Modes : InitWith(m)

BotNext ==
    \/ SessionStart
    \/ OnSessionStartResume
    \/ BreweryJoinAccepted
    \/ MucOnline

\* The whole controller, with one participant in the conference.
Next ==
    \/ BotNext
    \/ \E room \in RequestRooms : JoinConference(room)
    \/ \E room \in MucJids : ParticipantOnline(room, <<"p1">>)
    \/ \E room \in MucJids : ParticipantOffline(room, <<"p1">>)
    \/ \E room \in MucJids : SessionInitiate(room, "b1")
    \/ \E b \in binds, ok \in BOOLEAN : AllocationAnswered(b, ok)
    \/ NotifyRun
    \/ \E room \in RequestRooms, kind \in BodyKinds : StartRecording(room, kind)
    \/ \E rec \in RecIds, room \in RequestRooms \cup {NoRoom}, kind \in BodyKinds :
          RefreshRecording(rec, room, kind)
    \/ \E rec \in RecIds : StopRecording(rec)
    \/ \E c \in calls, ok \in BOOLEAN : AllocationReply(c, ok)
    \/ \E c \in calls : ReleaseAnswered(c)
    \/ \E j \in 1..MaxJobs : JobExit(j)
    \/ Tick

Spec == Init /\ [][Next]_vars

\* The tracker with the bot's session, under every resource part a MUC
\* occupant can have.
NextTracker ==
    \/ BotNext
    \/ \E room \in RequestRooms : JoinConference(room)
    \/ \E room \in MucJids, resource \in PlainResources \cup OddResources :
          ParticipantOnline(room, resource)
    \/ \E room \in MucJids, resource \in PlainResources \cup OddResources :
          ParticipantOffline(room, resource)
    \/ \E room \in MucJids : SessionInitiate(room, "b1")
    \/ \E b \in binds, ok \in BOOLEAN : AllocationAnswered(b, ok)
    \/ NotifyRun

SpecTracker == InitWith("xmpp") /\ [][NextTracker]_vars

\* Two participants, and recordings that are started with a participant
\* list and stopped.
NextRotation ==
    \/ BotNext
    \/ \E room \in RequestRooms : JoinConference(room)
    \/ \E room \in MucJids, resource \in PlainResources : ParticipantOnline(room, resource)
    \/ \E room \in MucJids, resource \in PlainResources : ParticipantOffline(room, resource)
    \/ \E room \in MucJids : SessionInitiate(room, "b1")
    \/ \E b \in binds, ok \in BOOLEAN : AllocationAnswered(b, ok)
    \/ NotifyRun
    \/ \E room \in MucJids : StartRecording(room, "participants")
    \/ \E rec \in RecIds : StopRecording(rec)
    \/ \E c \in calls, ok \in BOOLEAN : AllocationReply(c, ok)
    \/ \E c \in calls : ReleaseAnswered(c)

SpecRotation == InitWith("xmpp") /\ [][NextRotation]_vars

\* The stanza callback of conference-modify.
NextAck ==
    \/ \E iq \in Stanzas : ConferenceModifyArrives(iq)
    \/ ConferenceModifyDispatch

SpecAck == InitWith("xmpp") /\ [][NextAck]_vars

\* Conference-modify stanzas that carry a mapping for a conference MUC.
MappingStanzas ==
    {iq \in Stanzas : iq.id = 1 /\ ~iq.raises /\ iq.meeting = "m1" /\ iq.name \in MucJids}

\* The session-initiate handler's binding and allocation, with offers that
\* carry a bridge-session and offers that do not, next to the
\* conference-modify handler that fills conference_ids.
NextBind ==
    \/ BotNext
    \/ \E room \in RequestRooms : JoinConference(room)
    \/ \E room \in MucJids : ParticipantOnline(room, <<"p1">>)
    \/ \E room \in MucJids : ParticipantOffline(room, <<"p1">>)
    \/ \E room \in MucJids, bs \in BridgeIds : SessionInitiate(room, bs)
    \/ \E b \in binds : WaitForConferenceId(b)
    \/ \E b \in binds, ok \in BOOLEAN : AllocationAnswered(b, ok)
    \/ NotifyRun
    \/ \E iq \in MappingStanzas : ConferenceModifyArrives(iq)
    \/ ConferenceModifyDispatch

SpecBind == InitWith("xmpp") /\ [][NextBind]_vars

\* The WebRTC part of the session-initiate handler and the transport-info
\* handler.
NextJingle ==
    \/ \E sid \in Sids : OfferAnswering(sid, 1)
    \/ \E n \in negotiations, ok \in BOOLEAN : NegotiationStep(n, ok)
    \/ GatherWakes
    \/ \E sid \in Sids : IceGathering(sid)
    \/ \E iq \in TransportInfos : TransportInfoArrives(iq)
    \/ TransportInfoRun

SpecJingle == InitWith("xmpp") /\ [][NextJingle]_vars

\* The WebRTC part of the session-initiate handler alone, with an event loop
\* that wakes every sleeping handler.
NextNegotiation ==
    \/ \E sid \in Sids : OfferAnswering(sid, 1)
    \/ \E n \in negotiations, ok \in BOOLEAN : NegotiationStep(n, ok)
    \/ GatherWakes
    \/ \E sid \in Sids : IceGathering(sid)

SpecNegotiation == InitWith("xmpp") /\ [][NextNegotiation]_vars /\ WF_vars(GatherWakes)

\* start_multitrack_recording, called while the bot joins conference MUCs
\* and offers with a bridge-session arrive.
NextMultitrack ==
    \/ BotNext
    \/ \E room \in RequestRooms : JoinConference(room)
    \/ \E room \in MucJids : SessionInitiate(room, "b1")
    \/ \E room \in RequestRooms : StartMultitrack(room)
    \/ \E c \in mt_calls : MultitrackWake(c)

SpecMultitrack == InitWith("xmpp") /\ [][NextMultitrack]_vars

\* Allocation and release by the session-initiate handler and by the
\* orchestrator, next to the capability probe of the bridge.
NextDialect ==
    \/ BotNext
    \/ \E answered \in BOOLEAN, features \in SUBSET ColibriFeatures :
          CheckBridgeCapabilities(answered, features)
    \/ \E room \in RequestRooms : JoinConference(room)
    \/ \E room \in MucJids : ParticipantOnline(room, <<"p1">>)
    \/ \E room \in MucJids : SessionInitiate(room, "b1")
    \/ \E b \in binds, ok \in BOOLEAN : AllocationAnswered(b, ok)
    \/ NotifyRun
    \/ \E room \in MucJids : StartRecording(room, "participants")
    \/ \E rec \in RecIds : StopRecording(rec)
    \/ \E c \in calls, ok \in BOOLEAN : AllocationReply(c, ok)
    \/ \E c \in calls : ReleaseAnswered(c)

SpecDialect == InitWith("xmpp") /\ [][NextDialect]_vars

\* Starts and refreshes with a list of one or of two endpoints, allocated
\* over XMPP, and their stops.
NextAllocation ==
    \/ BotNext
    \/ \E room \in MucJids, kind \in {"participants", "pair"} : StartRecording(room, kind)
    \/ \E rec \in RecIds, room \in MucJids \cup {NoRoom}, kind \in {"participants", "pair"} :
          RefreshRecording(rec, room, kind)
    \/ \E j \in 1..MaxJobs : JobExit(j)
    \/ \E c \in calls, ok \in BOOLEAN : AllocationReplyKeeping(c, ok, TRUE)
    \/ \E rec \in RecIds : StopRecording(rec)
    \/ \E c \in calls : ReleaseAnswered(c)

SpecAllocation == InitWith("xmpp") /\ [][NextAllocation]_vars

\* Requests that overlap: a start, refresh or DELETE arrives while another
\* coroutine is suspended in an allocation or release IQ, and participants
\* join and leave meanwhile.
NextConcurrent ==
    \/ BotNext
    \/ \E room \in RequestRooms : JoinConference(room)
    \/ \E room \in MucJids : ParticipantOnline(room, <<"p1">>)
    \/ \E room \in MucJids : ParticipantOffline(room, <<"p1">>)
    \/ NotifyRun
    \/ \E room \in MucJids : StartRecordingAmong(room, "participants", MaxConcurrent)
    \/ \E rec \in RecIds, room \in MucJids \cup {NoRoom} :
          RefreshRecordingAmong(rec, room, "participants", MaxConcurrent)
    \/ \E rec \in RecIds : StopRecordingAmong(rec, MaxConcurrent)
    \/ \E c \in calls, ok \in BOOLEAN : AllocationReplyKeeping(c, ok, TRUE)
    \/ \E c \in calls : ReleaseAnswered(c)
    \/ \E j \in 1..MaxJobs : JobExit(j)

SpecConcurrent == InitWith("xmpp") /\ [][NextConcurrent]_vars

\* Joins and leaves of two participants with several notification tasks
\* scheduled at a time, during recordings allocated over XMPP.
NextNotify ==
    \/ BotNext
    \/ \E room \in RequestRooms : JoinConference(room)
    \/ \E room \in MucJids, resource \in PlainResources :
          ParticipantOnlineWithin(room, resource, MaxPending)
    \/ \E room \in MucJids, resource \in PlainResources :
          ParticipantOfflineWithin(room, resource, MaxPending)
    \/ NotifyRun
    \/ \E room \in MucJids : StartRecording(room, "participants")
    \/ \E rec \in RecIds : StopRecording(rec)
    \/ \E c \in calls, ok \in BOOLEAN : AllocationReply(c, ok)
    \/ \E c \in calls : ReleaseAnswered(c)

SpecNotify == InitWith("xmpp") /\ [][NextNotify]_vars

----------------------------------------------------------------------------
(* The manifest and the capture command of one recording *)

\* Characters of a display name: a letter, a blank, an underscore, a hyphen.
NameChars == {"A", " ", "_", "-"}
MaxName == 2
MaxParticipants == 2

SeqsUpTo(S, n) == UNION {[1..k -> S] : k \in 0..n}

\* Participant dicts as resolve_inputs_from_request builds them: "name" is ""
\* where the request gave none.
ParticipantDicts == [id : {"e1", "e2"}, name : SeqsUpTo(NameChars, MaxName)]
ParticipantLists == UNION {[1..k -> ParticipantDicts] : k \in 1..MaxParticipants}

\* out_dir = RECORDINGS_ROOT / room / timestamp_str()
OutDirs == {<<"recordings", "a", "t0">>, <<"recordings", "a", "t1">>}

\* re.sub(r'[^\w\-]', '_', name)
Substituted(name) == [i \in 1..Len(name) |-> IF name[i] \in {"A", "_", "-"} THEN name[i] ELSE "_"]

\* re.sub(r'_+', '_', name)
RECURSIVE Collapsed(_)
Collapsed(name) ==
    IF Len(name) < 2 THEN name
    ELSE IF name[1] = "_" /\ name[2] = "_" THEN Collapsed(Tail(name))
    ELSE <<name[1]>> \o Collapsed(Tail(name))

\* name.strip('_')
RECURSIVE Stripped(_)
Stripped(name) ==
    IF name = <<>> THEN name
    ELSE IF name[1] = "_" THEN Stripped(Tail(name))
    ELSE IF Last(name) = "_" THEN Stripped(SubSeq(name, 1, Len(name) - 1))
    ELSE name

sanitize_filename(name) == IF name = <<>> THEN <<>> ELSE Stripped(Collapsed(Substituted(name)))

\* The audio_file of a participant entry of the manifest.
audio_file(p) ==
    IF p.name # <<>>
    THEN <<"audio-">> \o sanitize_filename(p.name) \o <<"-", p.id, ".opus">>
    ELSE <<"audio-", p.id, ".opus">>

\* out_dir / name
PathJoin(out_dir, name) == Append(out_dir, name)

\* The out_file build_ffmpeg_command maps the input of a participant to.
out_file(out_dir, p) == PathJoin(out_dir, <<"audio-", p.id, ".opus">>)

build_manifest(ps, out_dir) == [i \in 1..Len(ps) |-> audio_file(ps[i])]

build_ffmpeg_command(ps, out_dir) == [i \in 1..Len(ps) |-> out_file(out_dir, ps[i])]

\* start_recording and refresh_recording, from the participant list on: the
\* manifest and the command are built from the same list and the same
\* output directory.
BuildRecording(out_dir) ==
    /\ built.out_dir # out_dir
    /\ built' = [out_dir |-> out_dir,
                 audio_files |-> build_manifest(participants, out_dir),
                 out_files |-> build_ffmpeg_command(participants, out_dir)]
    /\ UNCHANGED <<envVars, respVars, faultVars, sdpVars, participants, launchVars, wireVars, capVars, mtVars, jingleVars,
                   botVars, trackVars, orchVars, clock, ackVars, histVars>>

NextManifest == \E out_dir \in OutDirs : BuildRecording(out_dir)

\* A request whose participant list has been resolved.
InitManifest ==
    /\ InitState("sim")
    /\ participants \in ParticipantLists
    /\ offer = <<>>
    /\ LauncherIdle

SpecManifest == InitManifest /\ [][NextManifest]_vars

----------------------------------------------------------------------------
(* The capture job: subprocess, signals, log tail *)

MaxLines == 52       \* lines the subprocess writes
MaxStops == 2        \* stop() calls on one job

\* deque(maxlen=50)
maxlen == 50

\* The k-th line of the subprocess's output: its text, numbered, and the
\* white space that ends it.
Line(k) == [text |-> k, ends |-> <<"\n">>]

Whitespace == {" ", "\t", "\r", "\n"}

RECURSIVE Unended(_)
Unended(chars) ==
    IF chars # <<>> /\ Last(chars) \in Whitespace
    THEN Unended(SubSeq(chars, 1, Len(chars) - 1))
    ELSE chars

\* str.rstrip()
rstrip(line) == [line EXCEPT !.ends = Unended(@)]

\* A deque without maxlen.
append_unbounded(log_lines, line) == Append(log_lines, line)

\* deque.append on a deque with maxlen: a full deque drops its oldest item.
append(log_lines, line) ==
    IF Len(log_lines) = maxlen
    THEN Append(Tail(log_lines), line)
    ELSE Append(log_lines, line)

\* FFmpegJob.status()
job_status(job) ==
    IF job.proc = "none" THEN <<"not_started">>
    ELSE IF job.proc = "running" THEN <<"running">>
    ELSE <<"exited", job.returncode>>

\* A stop() that signals whatever subprocess was started.
signals_started(job) == job.proc # "none"

\* The test of stop(): self.proc and self.proc.poll() is None
signals_running(job) == job.proc = "running"

\* FFmpegJob.tail(): a new list with the deque's items.
tail(job) == [alias |-> FALSE, list |-> job.log_lines, lines |-> job.lines]

\* What the holder of a list returned by tail() reads in it.
Held(t) == IF t.alias THEN ffjob.log_lines ELSE t.list

LaunchFrame ==
    UNCHANGED <<envVars, respVars, faultVars, sdpVars, buildVars, wireVars, capVars, mtVars, jingleVars,
                botVars, trackVars, orchVars, clock, ackVars, histVars>>

\* FFmpegJob.start(), called once on every job right after its construction.
JobStart ==
    /\ ffjob.proc = "none"
    /\ ffjob' = [ffjob EXCEPT !.proc = "running"]
    /\ UNCHANGED <<signals, stop_calls, taken>>
    /\ LaunchFrame

\* One iteration of the loop of _pump_logs: the subprocess's next line is
\* read, stripped and appended.
PumpLine ==
    /\ ffjob.proc # "none"
    /\ ~ffjob.eof
    /\ ffjob.lines < MaxLines
    /\ ffjob' = [ffjob EXCEPT !.lines = @ + 1,
                              !.log_lines = append(@, rstrip(Line(ffjob.lines + 1)))]
    /\ UNCHANGED <<signals, stop_calls, taken>>
    /\ LaunchFrame

Signalled(sig) == \E i \in 1..Len(signals) : signals[i] = sig

\* The exit codes of the subprocess: its own, or that of the signal that ended it.
ExitCodes ==
    {0, 1} \cup (IF Signalled("terminate") THEN {0 - 15} ELSE {})
           \cup (IF Signalled("kill") THEN {0 - 9} ELSE {})

\* The subprocess exits; poll() and wait() report its code from now on.
ProcExit(code) ==
    /\ ffjob.proc = "running"
    /\ ffjob' = [ffjob EXCEPT !.proc = "exited", !.returncode = code]
    /\ UNCHANGED <<signals, stop_calls, taken>>
    /\ LaunchFrame

\* The output of the exited subprocess ends and the loop of _pump_logs with it.
PumpEnds ==
    /\ ffjob.proc = "exited"
    /\ ~ffjob.eof
    /\ ffjob' = [ffjob EXCEPT !.eof = TRUE]
    /\ UNCHANGED <<signals, stop_calls, taken>>
    /\ LaunchFrame

\* FFmpegJob.stop() up to proc.wait(timeout=10): terminate for a subprocess
\* that poll() reports as running, nothing otherwise.
JobStop ==
    /\ ffjob.stop = "idle"
    /\ Len(stop_calls) < MaxStops
    /\ stop_calls' = Append(stop_calls, job_status(ffjob)[1])
    /\ IF signals_running(ffjob)
       THEN /\ signals' = Append(signals, "terminate")
            /\ ffjob' = [ffjob EXCEPT !.stop = "wait"]
       ELSE UNCHANGED <<ffjob, signals>>
    /\ UNCHANGED taken
    /\ LaunchFrame

\* proc.wait(timeout=10) returns: the subprocess has exited.
WaitReturns ==
    /\ ffjob.stop = "wait"
    /\ ffjob.proc = "exited"
    /\ ffjob' = [ffjob EXCEPT !.stop = "idle"]
    /\ UNCHANGED <<signals, stop_calls, taken>>
    /\ LaunchFrame

\* proc.wait(timeout=10) raises TimeoutExpired: kill, and stop() goes on
\* without waiting again.
WaitExpires ==
    /\ ffjob.stop = "wait"
    /\ ffjob.proc = "running"
    /\ signals' = Append(signals, "kill")
    /\ ffjob' = [ffjob EXCEPT !.stop = "idle"]
    /\ UNCHANGED <<stop_calls, taken>>
    /\ LaunchFrame

\* A caller on the event loop takes tail() and keeps the list.
TakeTail ==
    /\ ffjob.stop = "idle"
    /\ taken' = tail(ffjob)
    /\ taken' # taken
    /\ UNCHANGED <<ffjob, signals, stop_calls>>
    /\ LaunchFrame

NextLaunch ==
    \/ JobStart
    \/ PumpLine
    \/ \E code \in ExitCodes : ProcExit(code)
    \/ PumpEnds
    \/ JobStop
    \/ WaitReturns
    \/ WaitExpires
    \/ TakeTail

SpecLaunch == InitWith("sim") /\ [][NextLaunch]_vars

----------------------------------------------------------------------------
(* Jingle and SDP *)

MaxContents == 2

\* Names of <content> elements and the media of their descriptions.
ContentNames == {"0", "1", "audio", "data"}
Medias == {"audio", "video"}

\* A <content>: its name, the media of its RTP description, and whether it
\* has a description and an ICE-UDP transport at all.
Contents == [name : ContentNames, media : Medias, description : BOOLEAN, transport : BOOLEAN]

\* The <jingle> elements of a session-initiate: contents with distinct names.
Offers ==
    {o \in UNION {[1..k -> Contents] : k \in 0..MaxContents} :
        \A i, j \in 1..Len(o) : o[i].name = o[j].name => i = j}

\* Lines of an SDP: the session lines, a=group:BUNDLE, m=, a=mid.
SessionLine == [k |-> "v", media |-> "", mids |-> <<>>]
GroupLine(mids) == [k |-> "group", media |-> "", mids |-> mids]
MediaLine(media) == [k |-> "m", media |-> media, mids |-> <<>>]
MidLine(mid) == [k |-> "mid", media |-> "", mids |-> <<mid>>]

\* The lines jingle_to_sdp writes for the contents from the i-th on: a
\* content without description or without transport is passed over.
RECURSIVE MediaSections(_, _)
MediaSections(contents, i) ==
    IF i > Len(contents) THEN <<>>
    ELSE IF ~contents[i].description \/ ~contents[i].transport
         THEN MediaSections(contents, i + 1)
         ELSE <<MediaLine(contents[i].media), MidLine(contents[i].name)>>
                 \o MediaSections(contents, i + 1)

\* bundle_mids = [content.get('name') for content in contents]
bundle_mids(contents) == [i \in 1..Len(contents) |-> contents[i].name]

jingle_to_sdp(contents) ==
    <<SessionLine>>
        \o (IF bundle_mids(contents) # <<>> THEN <<GroupLine(bundle_mids(contents))>> ELSE <<>>)
        \o MediaSections(contents, 1)

\* The mids of the media sections of an SDP, in order.
SectionMids(sdp) ==
    LET ls == SelectSeq(sdp, LAMBDA l : l.k = "mid")
    IN  [i \in 1..Len(ls) |-> ls[i].mids[1]]

\* The answer of the peer connection to an offer: its media sections one
\* for one, with their mids, bundled.
Answer(sdp) ==
    <<SessionLine>>
        \o (IF SectionMids(sdp) # <<>> THEN <<GroupLine(SectionMids(sdp))>> ELSE <<>>)
        \o SelectSeq(sdp, LAMBDA l : l.k \in {"m", "mid"})

\* _parse_sdp_media_sections, from the i-th line on: a dict keyed by the
\* media of the m= lines; a=mid lines match none of its patterns.
RECURSIVE parse_sdp_media_sections(_, _, _)
parse_sdp_media_sections(lines, i, sections) ==
    IF i > Len(lines) THEN sections
    ELSE IF lines[i].k = "m" /\ lines[i].media \in {"audio", "video"}
         THEN parse_sdp_media_sections(lines, i + 1, DictPut(sections, [key |-> lines[i].media]))
         ELSE parse_sdp_media_sections(lines, i + 1, sections)

\* content_name = "0" if media_type == "audio" else "1"
content_name(media_type) == IF media_type = "audio" THEN "0" ELSE "1"

sdp_to_jingle_accept(sdp) ==
    LET media_sections == parse_sdp_media_sections(sdp, 1, <<>>)
        names == [i \in 1..Len(media_sections) |-> content_name(media_sections[i].key)]
    IN  [group |-> names,
         contents |-> [i \in 1..Len(media_sections) |->
                          [name |-> names[i], media |-> media_sections[i].key]],
         built |-> TRUE]

SdpFrame ==
    UNCHANGED <<envVars, respVars, faultVars, buildVars, launchVars, wireVars, capVars, mtVars, jingleVars,
                botVars, trackVars, orchVars, clock, ackVars, histVars>>

\* The session-initiate handler converts the offer.
JingleToSdp ==
    /\ sdp_offer = <<>>
    /\ sdp_offer' = jingle_to_sdp(offer)
    /\ UNCHANGED <<offer, sdp_answer, jingle_accept>>
    /\ SdpFrame

\* setRemoteDescription, createAnswer, setLocalDescription.
CreateAnswer ==
    /\ sdp_offer # <<>>
    /\ sdp_answer = <<>>
    /\ sdp_answer' = Answer(sdp_offer)
    /\ UNCHANGED <<offer, sdp_offer, jingle_accept>>
    /\ SdpFrame

\* The handler builds the session-accept from the local description.
SdpToJingleAccept ==
    /\ sdp_answer # <<>>
    /\ jingle_accept = NoAccept
    /\ jingle_accept' = sdp_to_jingle_accept(sdp_answer)
    /\ UNCHANGED <<offer, sdp_offer, sdp_answer>>
    /\ SdpFrame

NextSdp ==
    \/ JingleToSdp
    \/ CreateAnswer
    \/ SdpToJingleAccept

\* A session-initiate has arrived.
InitSdp ==
    /\ InitState("xmpp")
    /\ participants = <<>>
    /\ offer \in Offers
    /\ LauncherIdle

SpecSdp == InitSdp /\ [][NextSdp]_vars

\* /api/record/start for rooms whose participants are tracked.
NextApi ==
    \/ BotNext
    \/ \E room_id \in RequestRooms : ApiStartRecording(room_id, 0)
    \/ \E c \in mt_calls : MultitrackWake(c)
    \/ \E room \in MucJids : ParticipantOnlineWithin(room, <<"p1">>, MaxJoins)
    \/ \E room \in MucJids : ParticipantOfflineWithin(room, <<"p1">>, MaxJoins)
    \/ NotifyRun

SpecApi == InitWith("xmpp") /\ [][NextApi]_vars

\* Conference joins in which join_muc may raise, with the tracker they
\* feed.
NextJoin ==
    \/ BotNext
    \/ \E room \in RequestRooms, raised \in 0..max_retries :
          JoinConferenceRaising(room, raised)
    \/ \E room \in MucJids, resource \in PlainResources : ParticipantOnline(room, resource)
    \/ \E room \in MucJids, resource \in PlainResources : ParticipantOffline(room, resource)
    \/ NotifyRun

SpecJoin == InitWith("xmpp") /\ [][NextJoin]_vars

----------------------------------------------------------------------------
(* Properties *)

Releases(n) == [i \in 1..n |-> "release"]

\* The steps of one stop_and_release on a job in the table, in their order:
\* terminate, manifest, any number of releases, and remove once finished.
StopOrder(order, finished) ==
    \E n \in 0..Len(order) :
        order = <<"terminate", "manifest">> \o Releases(n)
                \o (IF finished THEN <<"remove">> ELSE <<>>)

\* C1: every stop_and_release on a recording whose job is in the table
\* terminates the capture subprocess, then rewrites the manifest, then
\* attempts the releases, then removes the table entries: a call suspended at
\* a release has terminated the job and has not removed yet, and a finished
\* call has done the steps in exactly this order.
C1_StopOrder ==
    /\ last_stop.job # 0 =>
          /\ StopOrder(last_stop.order, TRUE)
          /\ jobobjs[last_stop.job].proc # "running"
    /\ \A c \in calls :
          c.phase = "release" /\ c.job # 0 =>
             /\ StopOrder(c.order, FALSE)
             /\ jobobjs[c.job].proc # "running"

\* A stop_and_release that sent a release IQ has finished.
C1_Witness ==
    /\ last_stop.job # 0
    /\ last_stop.sess.via_xmpp
    /\ last_stop.order = <<"terminate", "manifest", "release", "remove">>

\* C2: whenever stop_and_release has finished for a recording with session
\* metadata, it has attempted at least one release (a release IQ or the HTTP
\* release) before removing the entries.
C2_Original ==
    last_stop.sess.present =>
        \E i \in 1..Len(last_stop.order) : last_stop.order[i] = "release"

\* C3: the handler of a conference-modify IQ sends exactly one result IQ
\* with the id of that stanza before the next inbound IQ is handled, whatever
\* the stanza carries; and a result is sent for nothing else.
C3_Acknowledged ==
    [][ /\ (inbound # <<>> /\ inbound' = Tail(inbound)) =>
               outbound' = Append(outbound, [id |-> Head(inbound).id, type |-> "result"])
        /\ outbound' # outbound => (inbound # <<>> /\ inbound' = Tail(inbound)) ]_vars

\* Stanzas were acknowledged although none of them gave a mapping.
C3_Witness ==
    /\ Len(outbound) >= 2
    /\ inbound = <<>>
    /\ \A r \in RequestRooms : conference_ids[r] = "none"

\* The recording of the room a notification is for, if its job is running.
RunningRecording(room) ==
    LET rec == get_recording_for_room(Tables, room)
    IN  IF rec # 0 /\ jobs[rec] # 0 /\ status(jobobjs[IF jobs[rec] = 0 THEN 1 ELSE jobs[rec]]) = "running"
        THEN rec ELSE 0

\* The step in which the oldest notification task runs the callback.
CallbackRuns == notify_q # <<>> /\ notify_q' = Tail(notify_q)

\* C4: when the callback runs for a room with a running recording and the
\* list of participants with forwarders is non-empty, the old job is stopped
\* and the jobs table maps the same recording id to a new running job with
\* that list.
C4_Original ==
    [][ LET room == Head(notify_q).room
            rec  == RunningRecording(room)
        IN  (CallbackRuns /\ rec # 0 /\ get_participants_with_forwarders(room) # <<>>) =>
               /\ jobs'[rec] # 0
               /\ jobs'[rec] # jobs[rec]
               /\ jobobjs'[jobs'[rec]].proc = "running"
               /\ jobobjs'[jobs'[rec]].parts = Ids(get_participants_with_forwarders(room))
               /\ jobobjs'[jobs[rec]].proc # "running" ]_vars

\* C5: when the callback runs for a room with a running recording and no
\* participant has a forwarder, the job is terminated and the recording's
\* entries are removed, or its stop_and_release is waiting for a release IQ.
C5_Original ==
    [][ LET room == Head(notify_q).room
            rec  == RunningRecording(room)
        IN  (CallbackRuns /\ rec # 0 /\ get_participants_with_forwarders(room) = <<>>) =>
               /\ jobobjs'[jobs[rec]].proc # "running"
               /\ \/ /\ jobs'[rec] = 0
                     /\ ~sessions'[rec].present
                     /\ room \notin Keys(room_to_recording')
                  \/ \E c \in calls' : c.kind = "change" /\ c.rec = rec /\ c.phase = "release" ]_vars

\* C6: a job that replaces another under the same recording id writes to a
\* different directory, whose timestamp is after that of the job it replaces.
C6_Original ==
    \A j \in 1..Len(jobobjs) :
        jobobjs[j].prev # <<>> =>
            /\ DirOf(jobobjs[j]) # jobobjs[j].prev
            /\ jobobjs[j].ts > jobobjs[j].prev[2]

\* C7: every allocate or release request made of the bot, by the
\* session-initiate handler or by the orchestrator, and so every Colibri IQ
\* the bot sends, finds ready set and bridge_jid non-empty.
C7_ReadyBeforeColibri ==
    colibri_log.op # "none" => colibri_log.ready /\ colibri_log.bridge

\* The session-initiate handler has sent an allocation IQ.
C7_Witness ==
    /\ colibri_log.op = "allocate"
    /\ colibri_log.via = "jingle"
    /\ colibri_log.sent

\* C8: ready is set only when the brewery join has been acknowledged and an
\* occupant with local part jvb has been seen.
C8_Original == ready => (brewery = "joined" /\ jvb_seen)

\* C9: for every conference MUC R and resource n other than recorder-bot, the
\* table of R has an entry for n exactly if the last presence from R/n was
\* available; and recorder-bot is never in the table.
C9_Original ==
    \A room \in MucJids :
        /\ \A n \in (PlainResources \cup OddResources) \ {BotNick} :
              n \in Keys(cp[room]) <=> n \in observed[room]
        /\ BotNick \notin Keys(cp[room])

\* The state of recording r: "none" before its id is handed out, "running"
\* while its job runs, "failed" once the subprocess ended by itself,
\* "stopping" once it was terminated, "stopped" once the entries are removed.
\* A new job is started inside one handler segment, so "starting" shows in no
\* state.
StateOf(js, objs, n, r) ==
    IF js[r] = 0 THEN (IF r <= n THEN "stopped" ELSE "none")
    ELSE IF objs[js[r]].proc = "running" THEN "running"
    ELSE IF objs[js[r]].proc = "exited:self" THEN "failed"
    ELSE "stopping"

Rank(st) ==
    CASE st = "none" -> 0
      [] st = "running" -> 1
      [] st \in {"stopping", "failed"} -> 2
      [] st = "stopped" -> 3

\* Recording r moves backwards in this step.
Backwards(r) ==
    Rank(StateOf(jobs', jobobjs', issued', r)) < Rank(StateOf(jobs, jobobjs, issued, r))

\* Recording r gets a job in this step that was started by one of the causes.
Replaced(r, causes) ==
    /\ jobs'[r] = Len(jobobjs')
    /\ Len(jobobjs') = Len(jobobjs) + 1
    /\ jobobjs'[jobs'[r]].via \in causes
    /\ jobobjs'[jobs'[r]].rec = r

\* C10 as claimed: the state of a recording never moves backwards except in
\* a segment rotation.
C10_Original ==
    [][ \A r \in RecIds : Backwards(r) => Replaced(r, {"rotate"}) ]_vars

\* C10: the state of a recording never moves backwards except when a segment
\* rotation or a refresh replaces its capture job with a newly started one
\* under the same recording id.
C10_Monotone ==
    [][ \A r \in RecIds : Backwards(r) => Replaced(r, {"rotate", "refresh"}) ]_vars

\* A refresh has put a running job in the place of one that had failed.
C10_Witness ==
    \E r \in RecIds :
        /\ jobs[r] # 0
        /\ jobobjs[jobs[r]].via = "refresh"
        /\ jobobjs[jobs[r]].proc = "running"
        /\ \E j \in 1..Len(jobobjs) :
              /\ jobobjs[j].rec = r
              /\ jobobjs[j].proc = "exited:self"
              /\ DirOf(jobobjs[j]) = jobobjs[jobs[r]].prev

----------------------------------------------------------------------------
(* SSRC binding and forwarder allocation of the session-initiate handler *)

\* The entries an offer's SSRCs may be bound to.
Eligible(entries) ==
    {i \in 1..Len(entries) : ~entries[i].ssrcs /\ ~BindSkips(entries[i].key)}

\* The eligible entry that joined last; 0 if none is eligible.
MostRecentEligible(entries) ==
    IF Eligible(entries) = {} THEN 0
    ELSE CHOOSE i \in Eligible(entries) :
            \A j \in Eligible(entries) : entries[j].joined_at <= entries[i].joined_at

\* In this step an entry of the room that had no SSRCs gets SSRCs.
SsrcsAssigned(room) ==
    /\ Len(cp'[room]) = Len(cp[room])
    /\ \E i \in 1..Len(cp[room]) : ~cp[room][i].ssrcs /\ cp'[room][i].ssrcs

\* In this step a forwarder is requested for a participant of the room.
ForwarderRequested(room) ==
    \E b \in binds' \ binds : b.room = room /\ b.polls = 1 /\ ~b.stale

\* C11: a session-initiate binds its SSRCs to exactly one participant, the
\* most recently joined one among those that are not focus, jibri or
\* recorder-bot and have no SSRCs; every other entry is unchanged; and a
\* forwarder is requested only together with a binding.
C11_Original ==
    [][ \A room \in MucJids :
          /\ SsrcsAssigned(room) =>
                /\ MostRecentEligible(cp[room]) # 0
                /\ cp'[room] = [cp[room] EXCEPT ![MostRecentEligible(cp[room])].ssrcs = TRUE]
          /\ ForwarderRequested(room) => SsrcsAssigned(room) ]_vars

\* In this step the handler bound to b calls allocate_forwarder.
EntersAllocation(b) ==
    /\ b \in binds'
    /\ b.phase = "alloc"
    /\ ~\E c \in binds : c.phase = "alloc" /\ c.room = b.room /\ c.key = b.key

\* C12: the allocation that follows a binding is made after at most 25
\* checks of conference_ids, with the room's bridge conference id if the map
\* holds one by then and with the short name of the room otherwise.
C12_Original ==
    [][ \A b \in binds' :
          EntersAllocation(b) =>
             /\ b.polls <= WaitAttempts
             /\ colibri_log'.op = "allocate"
             /\ b.conf = IF conference_ids'[b.room] # "none"
                         THEN ConfId(conference_ids'[b.room])
                         ELSE ConfRoom(Short(b.room)) ]_vars

----------------------------------------------------------------------------
(* Input resolution *)

\* The conference MUC a request's room stands for.
MucOf(room) == IF room.n = 0 THEN Full(room) ELSE room

\* The tracked participants of the room's MUC that have SSRCs and a forwarder.
ReadyParticipants(room) ==
    SelectSeq(cp[MucOf(room)], LAMBDA e : e.ssrcs /\ e.fwd)

\* C13: for a request with a room and without inputs, made while the bot is
\* in that room and a tracked participant of the room has SSRCs and a
\* forwarder, resolve_inputs_from_request returns those participants as
\* automatically discovered, with no allocation and no HTTP call.
C13_Original ==
    \A room \in RequestRooms, kind \in {"participants", "bare"} :
        (/\ mode = "xmpp"
         /\ ready
         /\ MucOf(room) \in cp_rooms
         /\ ReadyParticipants(room) # <<>>) =>
            LET r == resolve_inputs_from_request(room, kind)
            IN  /\ r.tag = "ok"
                /\ r.parts = Ids(ReadyParticipants(room))
                /\ r.meta = AutoSession(room)

\* C14: get_participants_with_forwarders(R) returns exactly the entries of R
\* that have SSRCs bound and a forwarder, in every state that joins, leaves,
\* bindings and allocations lead to.
C14_ExactlyTheReady ==
    \A room \in MucJids :
        get_participants_with_forwarders(room) =
            SelectSeq(cp[room], LAMBDA e : e.ssrcs /\ e.fwd)

\* One participant is returned while another has SSRCs but no forwarder.
C14_Witness ==
    \E room \in MucJids :
        /\ Len(get_participants_with_forwarders(room)) = 1
        /\ \E i \in 1..Len(cp[room]) : cp[room][i].ssrcs /\ ~cp[room][i].fwd

\* C15: for a body with inputs resolve_inputs_from_request returns the inputs
\* and no session metadata, without automatic discovery, allocation IQ or
\* HTTP call, whatever the state of the bot and of the participant tables.
C15_InputsVerbatim ==
    \A room \in RequestRooms \cup {NoRoom}, kind \in {"inputs", "both"} :
        resolve_inputs_from_request(room, kind) =
            [tag |-> "ok", parts |-> <<"i1">>, meta |-> NoSession]

\* A recording runs on the inputs of its request, without session, while the
\* bot is ready and tracks a participant with a forwarder.
C15_Witness ==
    /\ mode = "xmpp"
    /\ ready
    /\ \E room \in MucJids : get_participants_with_forwarders(room) # <<>>
    /\ \E rec \in RecIds :
          /\ jobs[rec] # 0
          /\ jobobjs[jobs[rec]].parts = <<"i1">>
          /\ ~sessions[rec].present

----------------------------------------------------------------------------
(* Jingle *)

TransportInfoHandled == jingle_in # <<>> /\ jingle_in' = Tail(jingle_in)

\* C17: the handler of a transport-info sends exactly one result IQ with the
\* id of the stanza, and changes no peer connection but the one of the
\* stanza's sid.
C17_Original ==
    [][ TransportInfoHandled =>
          /\ jingle_out' = Append(jingle_out, [id |-> Head(jingle_in).id, type |-> "result"])
          /\ \A sid \in Sids \ {Head(jingle_in).sid} :
                peer_connections'[sid] = peer_connections[sid] ]_vars

----------------------------------------------------------------------------
(* The room to conference id map *)

\* C18: once a conference-modify with a meeting-id and the full JID of a room
\* as name is handled, conference_ids maps the full JID and the short name of
\* the room to that meeting-id.
C18_Original ==
    [][ (/\ inbound # <<>>
         /\ inbound' = Tail(inbound)
         /\ ~Head(inbound).raises
         /\ Head(inbound).meeting # "none"
         /\ Head(inbound).name \in MucJids) =>
            /\ conference_ids'[Head(inbound).name] = Head(inbound).meeting
            /\ conference_ids'[Short(Head(inbound).name)] = Head(inbound).meeting ]_vars

----------------------------------------------------------------------------
(* The multitrack export *)

\* A value that "if not conference_id" takes for no identifier.
Falsy(v) == v \in {"none", "null"}

\* The positions of the events of one kind in the last completed call.
Events(op) == {i \in 1..Len(mt_done.events) : mt_done.events[i].op = op}

\* The position of the first PATCH of the last completed call, past the end
\* if it made none.
FirstPatch ==
    IF Events("patch") = {} THEN Len(mt_done.events) + 1
    ELSE CHOOSE i \in Events("patch") : \A j \in Events("patch") : i <= j

\* Every PATCH carries a resolved identifier.
PatchesResolved == \A i \in Events("patch") : ~Falsy(mt_done.events[i].id)

\* A call in which no lookup and no debug query gave an identifier made no
\* PATCH and returned False.
FailsUnresolved ==
    (\A i \in Events("lookup") \cup Events("debug") : Falsy(mt_done.events[i].id))
        => Events("patch") = {} /\ ~mt_done.result

\* C19 as stated: start_multitrack_recording queries the debug endpoint only
\* after the initial lookup and each of the 5 polls did not find the room in
\* the cache; every PATCH carries a resolved identifier; a call that
\* resolves none fails without a PATCH.
C19_Original ==
    /\ \A i \in Events("debug") :
          /\ i > Polls + 1
          /\ SubSeq(mt_done.events, 1, Polls + 1) = Misses(Polls + 1)
    /\ PatchesResolved
    /\ FailsUnresolved

\* C19: before its first PATCH, start_multitrack_recording queries the debug
\* endpoint only after every lookup it made gave no identifier: the room was
\* absent at the initial lookup and at each of the 5 polls, or the cache held
\* an empty value for it.  After a PATCH it queries the debug endpoint at
\* most once, right after the first PATCH (the re-resolution on a 404).
\* Every PATCH carries the identifier that the lookup or the debug query just
\* before it resolved, and a call that resolves none fails without a PATCH.
C19_DebugWhenUnresolved ==
    /\ \A i \in Events("debug") :
          IF i < FirstPatch
          THEN /\ i > 1
               /\ \A j \in 1..(i - 1) :
                     mt_done.events[j].op = "lookup" /\ Falsy(mt_done.events[j].id)
               /\ \/ SubSeq(mt_done.events, 1, i - 1) = Misses(Polls + 1)
                  \/ mt_done.events[i - 1].id = "null"
          ELSE i = FirstPatch + 1
    /\ \A i \in Events("patch") :
          /\ i > 1
          /\ mt_done.events[i - 1].op \in {"lookup", "debug"}
          /\ mt_done.events[i - 1].id = mt_done.events[i].id
    /\ PatchesResolved
    /\ FailsUnresolved

\* A call missed the room at the initial lookup and at the 5 polls, resolved
\* an identifier over the debug endpoint and started the export with it.
C19_Witness ==
    /\ Len(mt_done.events) = Polls + 3
    /\ SubSeq(mt_done.events, 1, Polls + 1) = Misses(Polls + 1)
    /\ mt_done.events[Polls + 2].op = "debug"
    /\ mt_done.events[Polls + 3].op = "patch"
    /\ mt_done.result

\* The step in which call c, which never found the room in the cache, ends
\* its last sleep and returns after one debug query that found a conference
\* for the room.
ResolvedViaDebug(c) ==
    /\ c.polls = Polls
    /\ mt_calls' = mt_calls \ {c}
    /\ mt_done'.events[Polls + 2].conf # NoConference
    /\ \A i \in 1..Len(mt_done'.events) :
          mt_done'.events[i].op = "debug" => i = Polls + 2

\* C20: when the cache lacks the room and the debug inventory has a
\* conference for it, the identifier resolved is the meeting_id of the
\* conference if it has one and its id otherwise, and afterwards
\* conference_ids maps the short name and the MUC JID of the room to it.
C20_Original ==
    [][ \A c \in mt_calls :
          ResolvedViaDebug(c) =>
             LET r == mt_done'.events[Polls + 2]
             IN /\ r.id = IF r.conf.meeting_id # "none" THEN r.conf.meeting_id
                                                        ELSE r.conf.id
                /\ conference_ids'[c.room] = Stored(r.id)
                /\ conference_ids'[Full(c.room)] = Stored(r.id) ]_vars

\* The PATCH requests of the last completed call, in order.
Patches == SelectSeq(mt_done.events, LAMBDA e : e.op = "patch")

\* C21 as stated: a PATCH answered 404 is followed by a re-resolution over
\* the debug endpoint and by exactly one more PATCH; after any other answer
\* than 200 and 404 no request follows and the call fails; a call makes at
\* most two PATCH requests.
C21_Original ==
    /\ Len(Patches) <= 2
    /\ Len(Patches) >= 1 =>
          /\ Patches[1].code = 404 =>
                /\ Len(Patches) = 2
                /\ mt_done.events[FirstPatch + 1].op = "debug"
          /\ Patches[1].code \notin {200, 404} =>
                /\ FirstPatch = Len(mt_done.events)
                /\ ~mt_done.result

\* C21: a first PATCH answered 404 is followed by one re-resolution over the
\* debug endpoint; the PATCH is retried, once and with the new identifier,
\* exactly when the re-resolution gave an identifier other than the one that
\* failed, and otherwise the call fails with no retry.  After any other
\* answer than 200 and 404 nothing follows and the call fails.  The call
\* succeeds exactly when its last PATCH was answered 200, and it makes at most
\* two PATCH requests.
C21_RetryOnNewId ==
    /\ Len(Patches) <= 2
    /\ Len(Patches) >= 1 =>
          /\ Patches[1].code = 404 =>
                /\ Len(mt_done.events) >= FirstPatch + 1
                /\ mt_done.events[FirstPatch + 1].op = "debug"
                /\ LET new_id == mt_done.events[FirstPatch + 1].id
                   IN IF ~Falsy(new_id) /\ new_id # Patches[1].id
                      THEN /\ Len(mt_done.events) = FirstPatch + 2
                           /\ mt_done.events[FirstPatch + 2].op = "patch"
                           /\ mt_done.events[FirstPatch + 2].id = new_id
                      ELSE /\ Len(mt_done.events) = FirstPatch + 1
                           /\ ~mt_done.result
          /\ Patches[1].code # 404 => FirstPatch = Len(mt_done.events)
          /\ mt_done.result <=> Patches[Len(Patches)].code = 200

\* A first PATCH was answered 404, the re-resolution gave another identifier
\* and the retry with it was answered 200.
C21_Witness ==
    /\ Len(Patches) = 2
    /\ Patches[1].code = 404
    /\ Patches[2].id # Patches[1].id
    /\ Patches[2].code = 200
    /\ mt_done.result

----------------------------------------------------------------------------
(* Colibri dialects *)

\* C22: an allocation is made in Colibri v2 when the probe recorded v2
\* support, else in v1 when it recorded v1 support, and sends no allocate IQ
\* when it recorded neither; a release is made in the dialect of the
\* allocations.
C22_Original ==
    /\ colibri_log.op = "allocate" =>
          IF colibri_log.v2 THEN colibri_log.dialect = "v2"
          ELSE IF colibri_log.v1 THEN colibri_log.dialect = "v1"
          ELSE ~colibri_log.sent
    /\ colibri_log.op = "release" => colibri_log.dialect = DialectOf("allocate")

----------------------------------------------------------------------------
(* Failures of allocation and of release *)

\* C23: when a start that is suspended in the allocation for one endpoint
\* goes on, it allocates for the next endpoint of the list if there is one
\* and starts the recording if there is none, whether the allocation was
\* answered or failed.
C23_Original ==
    [][ \A c \in calls :
          (c.kind = "start" /\ c.phase = "alloc" /\ c \notin calls') =>
             IF c.left > 0
             THEN [c EXCEPT !.left = @ - 1] \in calls'
             ELSE issued' = issued + 1 ]_vars

\* The table entries of recording rec are gone, or a refresh has put a new
\* job in the place of job j.
TornDown(rec, j) ==
    \/ /\ jobs'[rec] = 0
       /\ sessions'[rec] = NoSession
       /\ \A i \in 1..Len(room_to_recording') : room_to_recording'[i].rec # rec
    \/ jobs'[rec] \notin {0, j}

\* C24: a stop_and_release that is resumed after a release IQ goes on to the
\* next release or to state.remove, whether the IQ was answered or failed;
\* and when a stop_and_release in which a release IQ or the HTTP release
\* failed returns, the job, the session and the room mapping of the
\* recording are removed from the tables.
C24_TeardownCompletes ==
    [][ /\ \A c \in calls :
             (c.phase = "release" /\ c \notin calls') =>
                \/ \E d \in calls' : d.phase = "release" /\ d.left = c.left - 1
                \/ TornDown(c.rec, c.job)
        /\ (last_stop' # last_stop /\ last_stop'.failed) =>
              TornDown(last_stop'.rec, last_stop'.job) ]_vars

\* A DELETE whose release IQ failed has finished and has left no entry of the
\* recording in the tables.
C24_Witness ==
    /\ last_stop.failed
    /\ last_stop.sess.via_xmpp
    /\ jobs[last_stop.rec] = 0
    /\ sessions[last_stop.rec] = NoSession

----------------------------------------------------------------------------
(* Refresh *)

\* The step in which a refresh puts its new capture job into the tables.
RefreshCompletes ==
    /\ Len(jobobjs') = Len(jobobjs) + 1
    /\ jobobjs'[Len(jobobjs')].via = "refresh"

\* C25: a refresh is a stop followed by a start.  When it completes, the
\* previous capture job has been terminated, the allocation of the previous
\* session has been released, and the tables hold a new running job under the
\* same recording id, for the room of the body or else the room of the
\* previous job; and it asks for the new allocation only after the previous
\* job has been stopped.
C25_Original ==
    [][ /\ RefreshCompletes =>
             LET new == jobobjs'[Len(jobobjs')]
                 old == last_stop'.job
             IN /\ old # 0
                /\ jobobjs'[old].proc # "running"
                /\ last_stop'.sess.present =>
                      \E i \in 1..Len(last_stop'.order) : last_stop'.order[i] = "release"
                /\ new.rec = jobobjs'[old].rec
                /\ jobs'[new.rec] = Len(jobobjs')
                /\ new.proc = "running"
                /\ new.room \in RequestRooms \cup {jobobjs'[old].room}
        /\ \A c \in calls' :
              (c.kind = "refresh" /\ c.phase = "alloc") =>
                 jobobjs'[jobs'[c.rec]].proc # "running" ]_vars

----------------------------------------------------------------------------
(* Order of the participant-change callbacks *)

\* A presence of a conference occupant is delivered.
PresenceArrives == observed' # observed

\* C26: the notification tasks are scheduled in the order in which the
\* presences arrive and run the callback in that order, and a callback has
\* finished when the next one runs: the task of a presence goes behind the
\* tasks scheduled before it, the task that runs is the oldest one, and no
\* callback is left suspended in its stop_and_release.
C26_CallbacksInOrder ==
    [][ /\ PresenceArrives =>
             /\ Len(notify_q') >= Len(notify_q)
             /\ SubSeq(notify_q', 1, Len(notify_q)) = notify_q
        /\ Len(notify_q') < Len(notify_q) => notify_q' = Tail(notify_q)
        /\ \A c \in calls' : c.kind # "change" ]_vars

\* The callback for the join of p1 has run and has stopped the capture job
\* of the room, while the callback for the leave of p1 that followed is
\* still scheduled.
C26_Witness ==
    /\ notify_q # <<>>
    /\ Head(notify_q).action = "left"
    /\ Head(notify_q).key = <<"p1">>
    /\ calls = {}
    /\ \E rec \in RecIds :
          /\ jobs[rec] # 0
          /\ jobobjs[jobs[rec]].proc = "exited:term"
          /\ jobobjs[jobs[rec]].room = Head(notify_q).room

----------------------------------------------------------------------------
(* The presences of a conference join *)

Sent(kind) == {i \in 1..Len(muc_out) : muc_out[i].kind = kind}

----------------------------------------------------------------------------
(* Output files *)

\* C28: for every participant at index i the output path of the capture
\* command for input i is the output directory joined with the audio_file
\* the manifest records for that participant, with or without display name.
C28_Original ==
    built # NotBuilt =>
        \A i \in 1..Len(participants) :
            built.out_files[i] = PathJoin(built.out_dir, built.audio_files[i])

----------------------------------------------------------------------------
(* Signals and status of a capture job *)

\* C29: stop() sends terminate only to a subprocess that is running, kill
\* only when the subprocess is still running at the end of the wait that
\* follows the terminate of the same call, and nothing to a job that was
\* never started or has exited; status() is not_started before start, and
\* once it has reported exited it reports the same exit for ever.
C29_SignalsAndStatus ==
    [][ /\ signals' # signals =>
             /\ ffjob.proc = "running"
             /\ \/ /\ signals' = Append(signals, "terminate")
                   /\ ffjob.stop = "idle"
                   /\ ffjob'.stop = "wait"
                \/ /\ signals' = Append(signals, "kill")
                   /\ ffjob.stop = "wait"
                   /\ Last(signals) = "terminate"
        /\ (stop_calls' # stop_calls /\ ffjob.proc # "running") => signals' = signals
        /\ ffjob.proc = "none" => job_status(ffjob) = <<"not_started">>
        /\ job_status(ffjob)[1] = "exited" => job_status(ffjob') = job_status(ffjob)
        /\ job_status(ffjob')[1] = "not_started" => job_status(ffjob)[1] = "not_started" ]_vars

\* A job that was stopped before it was started, and later stopped again
\* while running: the first call sent nothing, the second sent terminate
\* and, the subprocess outliving the wait, kill; the subprocess has exited.
C29_Witness ==
    /\ stop_calls = <<"not_started", "running">>
    /\ signals = <<"terminate", "kill">>
    /\ ffjob.stop = "idle"
    /\ job_status(ffjob) = <<"exited", 0 - 9>>

----------------------------------------------------------------------------
(* The log tail *)

Min(a, b) == IF a < b THEN a ELSE b

\* The most recent min(maxlen, n) of the first n lines, without terminators.
MostRecent(n) ==
    [i \in 1..Min(maxlen, n) |-> [text |-> n - Min(maxlen, n) + i, ends |-> <<>>]]

\* C30: the log tail holds at most 50 lines, the most recent min(50, n) of
\* the n lines of the subprocess so far, in their order; a list returned by
\* tail() keeps the lines it had when it was taken.
C30_LogTail ==
    /\ Len(ffjob.log_lines) <= 50
    /\ ffjob.log_lines = MostRecent(ffjob.lines)
    /\ Held(taken) = MostRecent(taken.lines)

\* More than 50 lines have been read, and a list taken from tail() when the
\* deque was already full still shows the lines of that moment.
C30_Witness ==
    /\ ffjob.lines > maxlen
    /\ taken.lines = maxlen
    /\ Held(taken) # ffjob.log_lines
    /\ Len(ffjob.log_lines) = maxlen

----------------------------------------------------------------------------
(* Contents and media sections *)

Elements(seq) == {seq[i] : i \in 1..Len(seq)}

\* C31: the session-accept has one content per m= section of the answer,
\* named by the section's mid, and a BUNDLE group of exactly those names;
\* so its content names are the mids of the translated offer.
C31_Original ==
    jingle_accept.built =>
        /\ [i \in 1..Len(jingle_accept.contents) |-> jingle_accept.contents[i].name]
              = SectionMids(sdp_answer)
        /\ jingle_accept.group = SectionMids(sdp_answer)
        /\ Elements(jingle_accept.group) = Elements(SectionMids(sdp_offer))

\* C40: every mid of the a=group:BUNDLE line of an SDP made by
\* jingle_to_sdp has an m= section with that a=mid.
C40_Original ==
    \A i \in 1..Len(sdp_offer) :
        sdp_offer[i].k = "group" =>
            Elements(sdp_offer[i].mids) \subseteq Elements(SectionMids(sdp_offer))

----------------------------------------------------------------------------
(* Failures in the Jingle handlers *)

\* C32: whatever the handling of a session-initiate or of a transport-info
\* raises is caught in the handler; nothing reaches the event loop, and a
\* transport-info that is scheduled afterwards is still handled.
C32_FailuresCaught ==
    /\ unhandled = 0
    /\ (jingle_in # <<>> /\ Len(jingle_out) < MaxJingleOut) => ENABLED TransportInfoRun

\* The offer of session s1 failed in its WebRTC part, leaving its peer
\* connection behind without a session-accept, and a transport-info for s1
\* handled after that got its result.
C32_Witness ==
    /\ peer_connections["s1"].made
    /\ ~peer_connections["s1"].local
    /\ \A n \in negotiations : n.sid # "s1"
    /\ \A a \in accepts : a.sid # "s1"
    /\ peer_connections["s1"].candidates # {}
    /\ jingle_out # <<>>

----------------------------------------------------------------------------
(* Joins by /api/record/start *)

\* C33: /api/record/start joins a conference MUC only if the bot is not in
\* it: once the bot has joined a room and tracks participants there, no
\* further join is made and no further handler pair registered for it.
C33_Original ==
    [][ \A room \in MucJids :
           (room \in cp_rooms /\ handlers[room] > 0) => handlers'[room] = handlers[room] ]_vars

\* C34: every capture subprocess that is running is the job stored in jobs
\* under its recording id, whatever the interleaving of starts, refreshes,
\* DELETEs and participant changes.
C34_Original ==
    \A j \in 1..Len(jobobjs) :
        status(jobobjs[j]) = "running" => jobs[jobobjs[j].rec] = j

\* The stop_and_release that completed last was the one of a DELETE of rec.
DeleteCompleted(rec) == last_stop.kind = "delete" /\ last_stop.rec = rec

\* No capture job is registered or running under rec.
NoCapture(rec) ==
    /\ jobs[rec] = 0
    /\ \A j \in 1..Len(jobobjs) :
          jobobjs[j].rec = rec => status(jobobjs[j]) # "running"

\* C35: once DELETE /recordings/{id} has completed, no capture job is
\* registered or running under that id, then and after the next step,
\* whatever was in flight.
C35_Original ==
    [][ \A rec \in RecIds :
           DeleteCompleted(rec) => NoCapture(rec) /\ NoCapture(rec)' ]_vars

\* C36: when the input resolution of a refresh fails (here: the allocation
\* IQ fails or times out while the refresh is suspended in it), the step
\* that ends the request leaves jobs, sessions, the room mapping and every
\* job object as they are, so a job that was running keeps running.
C36_FailedRefreshKeeps ==
    [][ \A c \in calls :
           ( /\ c.kind = "refresh"
             /\ c.phase = "alloc"
             /\ calls' = calls \ {c}
             /\ Len(jobobjs') = Len(jobobjs) )
           => /\ http_error' = [kind |-> "refresh", rec |-> c.rec]
              /\ UNCHANGED <<jobs, sessions, room_to_recording, jobobjs>> ]_vars

\* A refresh was answered with an error, no stop_and_release has run, and
\* the recording is registered and running with its session and its room.
C36_Witness ==
    /\ http_error.kind = "refresh"
    /\ last_stop = NoStop
    /\ calls = {}
    /\ LET rec == http_error.rec
       IN  /\ jobs[rec] # 0
           /\ status(jobobjs[jobs[rec]]) = "running"
           /\ jobobjs[jobs[rec]].via = "start"
           /\ sessions[rec].present
           /\ get_recording_for_room(Tables, jobobjs[jobs[rec]].room) = rec

\* C37: every recording id that room_to_recording holds as a value, and
\* every key of sessions, is a key of jobs; so once remove(rec_id) has deleted
\* the job, no table refers to rec_id.
C37_TablesRefer ==
    /\ \A i \in 1..Len(room_to_recording) : jobs[room_to_recording[i].rec] # 0
    /\ \A rec \in RecIds : sessions[rec] # NoSession => jobs[rec] # 0

\* A DELETE has removed a recording that had a session and a room mapping.
C37_Witness ==
    /\ last_stop.kind = "delete"
    /\ last_stop.sess.present
    /\ last_stop.sess.room # NoRoom
    /\ jobs[last_stop.rec] = 0
    /\ sessions[last_stop.rec] = NoSession
    /\ room_to_recording = <<>>

\* C38: when allocate_forwarder_for_participant completes with an answered
\* allocation, the dict it writes the forwarder to is the entry the table
\* holds for that nick at that time: the write never goes to a dict that a
\* leave or a rejoin has taken out of the table meanwhile.
C38_Original ==
    [][ \A b \in binds :
           AllocationAnswered(b, TRUE)
           => /\ ~b.stale
              /\ b.key \in Keys(cp'[b.room])
              /\ Entry(cp'[b.room], b.key).fwd ]_vars

\* C39: however often the bot has joined a conference MUC, an available or
\* unavailable presence of a participant schedules exactly one notification,
\* and a join leaves the participant table, with the SSRCs and forwarders
\* bound in it, as it is.
C39_Original ==
    [][ \A room \in MucJids :
           /\ observed'[room] # observed[room] => Len(notify_q') = Len(notify_q) + 1
           /\ handlers'[room] # handlers[room] => cp'[room] = cp[room] ]_vars

====
